---- MODULE Spec2Model ----
(***************************************************************************)
(* Big Pi late-reverb core: Tank (FDN), mixing matrices, DSP primitives.   *)
(*                                                                         *)
(* Number representation.  The C++ code computes in IEEE float.  Every     *)
(* float quantity is modelled by an integer on a fixed grid:               *)
(*   - samples, gains, filter coefficients, 0..1 controls : 1/FX           *)
(*   - delays in samples                                  : 1/FX sample    *)
(*   - frequencies (cutoffs, sample rate)                 : 1 Hz           *)
(*   - modulation / noise rates                           : 1 mHz          *)
(*   - times in milliseconds                              : 0.1 ms         *)
(*   - times in seconds (RT60, delay seconds)             : 1 microsecond  *)
(*   - oscillator phases                                  : 1 microradian  *)
(* Products and quotients round to the nearest grid point, as a float      *)
(* operation rounds to the nearest representable value.                    *)
(***************************************************************************)
EXTENDS Integers, Sequences, FiniteSets, TLC

\* ------------------------------------------------------------------------
\* Bounds of the model (not program constants)
\* ------------------------------------------------------------------------
MaxProc == 3
MaxCfg == 1
MaxInit == 1
MaxClear == 1

\* ------------------------------------------------------------------------
\* Grids
\* ------------------------------------------------------------------------
FX == 100 * 100
PiU == 3141593
TwoPiU == 2 * PiU

kMaxLines == 16
Lines == 0 .. (kMaxLines - 1)

\* ------------------------------------------------------------------------
\* Integer helpers standing for float arithmetic
\* ------------------------------------------------------------------------
\* a std::array built element by element, held by value
Arr(f) == f @@ << >>

Max(a, b) == IF a >= b THEN a ELSE b
Min(a, b) == IF a <= b THEN a ELSE b
Abs(a) == IF a < 0 THEN -a ELSE a

\* a / b rounded to nearest (ties away from zero), b > 0
RoundDiv(a, b) ==
    IF a >= 0 THEN (a + (b \div 2)) \div b
    ELSE -((-a + (b \div 2)) \div b)

\* product a * b / FX of two grid quantities, one of them on the 1/FX grid;
\* both operands are split so that large magnitudes do not overflow
MulFx(a, b) ==
    LET qa == a \div FX
        ra == a % FX
        qb == b \div FX
        rb == b % FX
    IN qa * qb * FX + qa * rb + ra * qb + RoundDiv(ra * rb, FX)

\* exact quotient of two same-grid quantities, as a 1/FX number
DivFx(a, b) == RoundDiv(a * FX, b)

\* dsp::clampf / dsp::clamp : std::max(lo, std::min(hi, x))
clampf(x, lo, hi) == Max(lo, Min(hi, x))

\* killDenorm: values below 1e-20 in magnitude become 0.  On the 1/FX grid
\* the smallest non-zero magnitude is far above 1e-20, so the scrub leaves
\* every representable value unchanged.
killDenorm(x) == IF Abs(x) < 0 THEN 0 ELSE x

\* std::exp on the 1/FX grid: exp(x) = exp(x/16)^16, exp(x/16) by its Taylor
\* polynomial (|x/16| stays below 1 for every argument the program forms)
ExpSmall(t) ==
    LET t2 == MulFx(t, t)
        t3 == MulFx(t2, t)
        t4 == MulFx(t3, t)
        t5 == MulFx(t4, t)
    IN FX + t + RoundDiv(t2, 2) + RoundDiv(t3, 6) + RoundDiv(t4, 24)
          + RoundDiv(t5, 120)

Sq(x) == MulFx(x, x)

Exp(x) ==
    IF x < -12 * FX THEN 0
    ELSE Sq(Sq(Sq(Sq(ExpSmall(RoundDiv(x, 16))))))

\* std::sin of a phase given in microradians, result on the 1/FX grid
\* (Bhaskara's rational approximation on each half period)
SinHalf(x) ==
    LET p == MulFx(x, RoundDiv(PiU, 100) - x)
    IN RoundDiv(4 * p * FX, RoundDiv(5 * 98696 - 4 * p, 4))

Sin(phaseU) ==
    LET ph == phaseU % TwoPiU
        x  == RoundDiv(ph, 100)
        pi == RoundDiv(PiU, 100)
    IN IF x <= pi THEN SinHalf(x) ELSE -SinHalf(x - pi)

\* std::tanh through exp: tanh(y) = sign(y) (1 - e^(-2|y|)) / (1 + e^(-2|y|))
Tanh(y) ==
    LET e == Exp(-2 * Abs(y))
        t == DivFx(FX - e, FX + e)
    IN IF y < 0 THEN -t ELSE t

\* ------------------------------------------------------------------------
\* 32-bit unsigned arithmetic (uint32_t) as <<high 16 bits, low 16 bits>>
\* ------------------------------------------------------------------------
W16 == 256 * 256

U32(hi, lo) == <<hi % W16, lo % W16>>

U32Add(a, b) ==
    LET lo == a[2] + b[2]
    IN U32(a[1] + b[1] + (lo \div W16), lo)

\* a * k mod 2^32 for a small multiplier k (k <= kMaxLines)
U32MulSmall(a, k) ==
    LET lo == a[2] * k
    IN U32(a[1] * k + (lo \div W16), lo)

\* a * c mod 2^32 for a 32-bit constant c whose high half is below 2^8
U32MulConst(a, c) ==
    LET ll == a[2] * c[2]
        l1 == ll % W16
        cy == ll \div W16
        mid == ((a[1] * c[2]) % W16) + ((a[2] * c[1]) % W16) + cy
    IN U32(mid, l1)

RECURSIVE XorBits(_, _)
XorBits(a, b) ==
    IF a = 0 THEN b
    ELSE IF b = 0 THEN a
    ELSE 2 * XorBits(a \div 2, b \div 2) + (((a % 2) + (b % 2)) % 2)

U32Xor(a, b) == <<XorBits(a[1], b[1]), XorBits(a[2], b[2])>>
U32Shl13(a) == U32(a[1] * 8192 + (a[2] \div 8), (a[2] % 8) * 8192)
U32Shr17(a) == <<0, a[1] \div 2>>
U32Shl5(a) == U32(a[1] * 32 + (a[2] \div 2048), (a[2] % 2048) * 32)
U32Mod(a, m) == (((a[1] % m) * (W16 % m)) + a[2]) % m

\* ------------------------------------------------------------------------
\* dsp::OnePoleLP / dsp::OnePoleHP
\* ------------------------------------------------------------------------
OnePole0 == [z |-> 0, a |-> 0]

OnePole_clear(f) == [f EXCEPT !.z = 0]

OnePole_setCutoff(f, hz, sRate) ==
    LET h == clampf(hz, 5, RoundDiv(49 * sRate, 100))
    IN [f EXCEPT !.a = Exp(-MulFx(62832, DivFx(h, sRate)))]

\* the filter after one sample (the new z is the low-pass output)
OnePole_step(f, x) ==
    [f EXCEPT !.z = killDenorm(MulFx(f.z, f.a) + MulFx(x, FX - f.a))]

OnePoleLP_out(f, x) == OnePole_step(f, x).z
OnePoleHP_out(f, x) == x - OnePole_step(f, x).z

\* ------------------------------------------------------------------------
\* dsp::EnvelopeFollower
\* ------------------------------------------------------------------------
\* exp(-1 / (sec * sr)) for a time given on the 0.1 ms grid
TimeCoeff(ms10, sRate) == Exp(-RoundDiv(RoundDiv(100000000, ms10), sRate))

Env0 == [sr |-> 48000, env |-> 0, aAtk |-> 0, aRel |-> 0]

Env_setSampleRate(e, sampleRate) ==
    [e EXCEPT !.sr = IF sampleRate <= 1 THEN 48000 ELSE sampleRate]

Env_setAttackReleaseMs(e, attackMs, releaseMs) ==
    [e EXCEPT !.aAtk = TimeCoeff(Max(attackMs, 1), e.sr),
              !.aRel = TimeCoeff(Max(releaseMs, 1), e.sr)]

Env_clear(e) == [e EXCEPT !.env = 0]

Env_process(e, x) ==
    LET mag == Abs(x)
        a   == IF mag > e.env THEN e.aAtk ELSE e.aRel
    IN [e EXCEPT !.env = killDenorm(MulFx(e.env, a) + MulFx(mag, FX - a))]

\* ------------------------------------------------------------------------
\* dsp::DelayLine
\* ------------------------------------------------------------------------
DelayLine0 == [buf |-> << >>, w |-> 0]

\* variant: an init() that takes the requested capacity as given
DelayLine_init_asGiven(maxSamples) ==
    [buf |-> [k \in 1 .. maxSamples |-> 0], w |-> 0]

DelayLine_init(maxSamples) ==
    [buf |-> [k \in 1 .. Max(4, maxSamples) |-> 0], w |-> 0]

\* variant: a clear() that rewinds the cursor and keeps the samples
DelayLine_clear_keep(dl) == [dl EXCEPT !.w = 0]

DelayLine_clear(dl) == [buf |-> [k \in 1 .. Len(dl.buf) |-> 0], w |-> 0]

\* variant: a push that stores the sample and leaves the cursor where it was
DelayLine_push_stay(dl, x) ==
    IF Len(dl.buf) = 0 THEN dl
    ELSE [buf |-> [dl.buf EXCEPT ![dl.w + 1] = x], w |-> dl.w]

DelayLine_push(dl, x) ==
    IF Len(dl.buf) = 0 THEN dl
    ELSE [buf |-> [dl.buf EXCEPT ![dl.w + 1] = x],
          w   |-> IF dl.w + 1 >= Len(dl.buf) THEN 0 ELSE dl.w + 1]

\* effective (clamped) read delay and the four tap indices of a read
ReadDelay(dl, delaySamples) == clampf(delaySamples, 0, (Len(dl.buf) - 4) * FX)

ReadPos(dl, delaySamples) ==
    (dl.w * FX - ReadDelay(dl, delaySamples)) % (Len(dl.buf) * FX)

ReadTaps(dl, delaySamples) ==
    LET size == Len(dl.buf)
        i1 == ReadPos(dl, delaySamples) \div FX
        i0 == IF i1 - 1 < 0 THEN i1 - 1 + size ELSE i1 - 1
        i2 == IF i1 + 1 >= size THEN i1 + 1 - size ELSE i1 + 1
        i3 == IF i1 + 2 >= size THEN i1 + 2 - size ELSE i1 + 2
    IN <<i0, i1, i2, i3>>

DelayLine_readFracCubic(dl, delaySamples) ==
    IF Len(dl.buf) < 4 THEN 0
    ELSE
      LET rp == ReadPos(dl, delaySamples)
          t  == ReadTaps(dl, delaySamples)
          f  == rp - (rp \div FX) * FX
          y0 == dl.buf[t[1] + 1]
          y1 == dl.buf[t[2] + 1]
          y2 == dl.buf[t[3] + 1]
          y3 == dl.buf[t[4] + 1]
          m1 == RoundDiv(y2 - y0, 2)
          m2 == RoundDiv(y3 - y1, 2)
          f2 == MulFx(f, f)
          f3 == MulFx(f2, f)
          h00 == 2 * f3 - 3 * f2 + FX
          h10 == f3 - 2 * f2 + f
          h01 == -2 * f3 + 3 * f2
          h11 == f3 - f2
      IN MulFx(h00, y1) + MulFx(h10, m1) + MulFx(h01, y2) + MulFx(h11, m2)

\* ------------------------------------------------------------------------
\* dsp::MultiLFO
\* ------------------------------------------------------------------------
MultiLFO_init(n, sampleRate) ==
    LET count == Max(1, n)
        t(i) == IF count = 1 THEN 0 ELSE DivFx(i, count - 1)
    IN [count   |-> count,
        sr      |-> IF sampleRate <= 1 THEN 48000 ELSE sampleRate,
        phase   |-> [i \in 0 .. (count - 1) |-> MulFx(TwoPiU, t(i) + 1300)],
        rateMul |-> [i \in 0 .. (count - 1) |-> 8500 + MulFx(3000, t(i))]]

MultiLFO_index(bank, i) == Max(0, Min(i, bank.count - 1))

\* the sample returned by process(i, baseRateHz)
MultiLFO_out(bank, i) == Sin(bank.phase[MultiLFO_index(bank, i)])

\* the bank after process(i, baseRateHz); baseRateHz in mHz
MultiLFO_step(bank, i, baseRateHz) ==
    LET k   == MultiLFO_index(bank, i)
        hz  == MulFx(baseRateHz, bank.rateMul[k])
        inc == RoundDiv(RoundDiv(TwoPiU, bank.sr) * hz, 1000)
        p   == bank.phase[k] + inc
    IN [bank EXCEPT !.phase[k] = IF p >= TwoPiU THEN p - TwoPiU ELSE p]

\* ------------------------------------------------------------------------
\* dsp::softSat
\* ------------------------------------------------------------------------
softSat(x, drive) ==
    LET dr   == clampf(drive, 0, 10 * FX)
        y    == Tanh(MulFx(x, FX + dr))
        norm == DivFx(FX, Tanh(FX + dr))
    IN MulFx(y, norm)

\* fbFinal = (1 - satMix) * fbColored + satMix * softSat(fbColored, drive)
SatBlend(x, drive, satMix) ==
    MulFx(x, FX - satMix) + MulFx(softSat(x, drive), satMix)

\* ------------------------------------------------------------------------
\* dsp::SmoothNoise
\* ------------------------------------------------------------------------
SmoothNoise0 ==
    [sr |-> 48000, rng |-> <<4660, 22136>>, y |-> 0, target |-> 0,
     rateHz |-> 500, samplesToNext |-> 1, a |-> 0]

SmoothNoise_setSampleRate(n, sampleRate) ==
    [n EXCEPT !.sr = IF sampleRate <= 1 THEN 48000 ELSE sampleRate]

SmoothNoise_period(n, rate) == Max(1, (n.sr * 1000) \div rate)

SmoothNoise_setRateHz(n, hz) ==
    LET r == clampf(hz, 10, 20000)
    IN [n EXCEPT !.rateHz = r, !.samplesToNext = SmoothNoise_period(n, r)]

SmoothNoise_setSmoothMs(n, ms) ==
    [n EXCEPT !.a = TimeCoeff(Max(ms, 1), n.sr)]

SmoothNoise_seed(n, s) ==
    [n EXCEPT !.rng = IF s = <<0, 0>> THEN <<0, 1>> ELSE s]

SmoothNoise_clear(n) ==
    [n EXCEPT !.y = 0, !.target = 0, !.samplesToNext = 1]

\* rng = 1664525 * rng + 1013904223 (mod 2^32)
NextRng(rng) == U32Add(U32MulConst(rng, <<25, 26125>>), <<15470, 62303>>)

\* the 23 mantissa bits rng >> 9 read as a float in [1, 2), then 2f - 1
RandBipolar(rng) == RoundDiv(2 * FX * (rng[1] \div 2), 32768) - FX

SmoothNoise_process(n) ==
    LET cnt  == n.samplesToNext - 1
        draw == cnt <= 0
        rng2 == IF draw THEN NextRng(n.rng) ELSE n.rng
        tgt  == IF draw THEN RandBipolar(rng2) ELSE n.target
        y2   == killDenorm(MulFx(n.y, n.a) + MulFx(tgt, FX - n.a))
    IN [n EXCEPT !.rng = rng2, !.target = tgt, !.y = y2,
                 !.samplesToNext = IF draw THEN SmoothNoise_period(n, n.rateHz)
                                   ELSE cnt]

SmoothNoise_out(n) == clampf(SmoothNoise_process(n).y, -FX, FX)

\* ------------------------------------------------------------------------
\* Mixing matrices (Matrices.h / Matrices.cpp)
\* ------------------------------------------------------------------------
RECURSIVE SumTo(_, _)
SumTo(v, n) == IF n <= 0 THEN 0 ELSE v[n - 1] + SumTo(v, n - 1)

isPowerOfTwo(x) == x \in {1, 2, 4, 8, 16}

\* variant: subtracting the mean once instead of twice
householderMix_once(v, lines0) ==
    LET lines == Max(1, Min(lines0, kMaxLines))
        mean  == RoundDiv(SumTo(v, lines), lines)
    IN Arr([i \in Lines |-> IF i < lines THEN v[i] - mean ELSE v[i]])

householderMix(v, lines0) ==
    LET lines == Max(1, Min(lines0, kMaxLines))
        sum   == SumTo(v, lines)
        mean  == RoundDiv(sum, lines)
    IN Arr([i \in Lines |-> IF i < lines THEN v[i] - 2 * mean ELSE v[i]])

\* variant: a butterfly whose lower half keeps the sign of the upper half
ButterflyPass_sameSign(v, lines, step) ==
    Arr([k \in Lines |->
        IF k >= lines THEN v[k]
        ELSE IF (k \div step) % 2 = 0 THEN v[k] + v[k + step]
        ELSE v[k - step] + v[k]])

\* one pass of the in-place butterfly with the given step
ButterflyPass(v, lines, step) ==
    Arr([k \in Lines |->
        IF k >= lines THEN v[k]
        ELSE IF (k \div step) % 2 = 0 THEN v[k] + v[k + step]
        ELSE v[k - step] - v[k]])

RECURSIVE FWHT(_, _, _)
FWHT(v, lines, step) ==
    IF step >= lines THEN v
    ELSE FWHT(ButterflyPass(v, lines, step), lines, 2 * step)

\* 1/sqrt(N): the literals for 8 and 16, 1/sqrt(lines) otherwise
HadamardScale(lines) ==
    IF lines = 8 THEN 3536
    ELSE IF lines = 16 THEN 2500
    ELSE IF lines = 4 THEN 5000
    ELSE IF lines = 2 THEN 7071
    ELSE FX

hadamardMix(v, lines0) ==
    LET lines == Max(1, Min(lines0, kMaxLines))
    IN IF ~isPowerOfTwo(lines) THEN householderMix(v, lines)
       ELSE LET b == FWHT(v, lines, 1)
            IN Arr([i \in Lines |->
                   IF i < lines THEN MulFx(b[i], HadamardScale(lines))
                   ELSE b[i]])

mix(v, lines0, type) ==
    LET lines == Max(0, Min(lines0, kMaxLines))
    IN IF lines <= 1 THEN v
       ELSE IF type = "Hadamard" THEN hadamardMix(v, lines)
       ELSE householderMix(v, lines)

\* ------------------------------------------------------------------------
\* The second copy of the mixing functions kept in the repository
\* (src/unnamed/part_006, src/unnamed/part_007): no power-of-two test, no
\* clamp in mix, scale always 1/sqrt(lines)
\* ------------------------------------------------------------------------
\* 1/sqrt(lines) on the grid
InvSqrt(lines) ==
    CASE lines = 1 -> FX
      [] lines = 2 -> 7071
      [] lines = 3 -> 5774
      [] lines = 4 -> 5000
      [] lines = 5 -> 4472
      [] lines = 6 -> 4082
      [] lines = 7 -> 3780
      [] lines = 8 -> 3536
      [] lines = 9 -> 3333
      [] lines = 10 -> 3162
      [] lines = 11 -> 3015
      [] lines = 12 -> 2887
      [] lines = 13 -> 2774
      [] lines = 14 -> 2673
      [] lines = 15 -> 2582
      [] OTHER -> 2500

\* the three nested loops for one step: blocks of 2*step start at every
\* i < lines, so the last block may reach past lines
ButterflyPass_part007(v, lines, step) ==
    LET covered == ((lines + 2 * step - 1) \div (2 * step)) * (2 * step)
    IN Arr([k \in Lines |->
           IF k >= covered THEN v[k]
           ELSE IF (k \div step) % 2 = 0 THEN v[k] + v[k + step]
           ELSE v[k - step] - v[k]])

RECURSIVE FWHT_part007(_, _, _)
FWHT_part007(v, lines, step) ==
    IF step >= lines THEN v
    ELSE FWHT_part007(ButterflyPass_part007(v, lines, step), lines, 2 * step)

hadamardMix_part007(v, lines0) ==
    LET lines == Max(1, Min(lines0, kMaxLines))
        b == FWHT_part007(v, lines, 1)
    IN Arr([i \in Lines |->
           IF i < lines THEN MulFx(b[i], InvSqrt(lines)) ELSE b[i]])

mix_part006(v, lines, type) ==
    IF type = "Hadamard" THEN hadamardMix_part007(v, lines)
    ELSE householderMix(v, lines)

\* ------------------------------------------------------------------------
\* Tap patterns (TapPatterns.cpp: src/unnamed/part_005, and the copy in
\* src/Source/ReverbCore/TapPatterns.cpp where it differs)
\* ------------------------------------------------------------------------
\* the % of C++ on int: the remainder has the sign of the dividend
CRem(a, n) == IF a >= 0 THEN a % n ELSE -((-a) % n)

wrapIndex(i, n) ==
    IF n <= 0 THEN 0
    ELSE IF CRem(i, n) < 0 THEN CRem(i, n) + n ELSE CRem(i, n)

\* one tap loop: sum over t of s(t) * y[wrapIndex(taps[t], lines)], the sign
\* being `first` for even t and -first for odd t
TapSum(y, lines, taps, first) ==
    SumTo([t \in 0 .. (Len(taps) - 1) |->
              (IF t % 2 = 1 THEN -first ELSE first)
                  * y[wrapIndex(taps[t + 1], lines)]], Len(taps))

\* what a pattern function leaves in L and R, with the sums it formed and
\* the number of taps it added into each (countL, countR)
TapOut(sumL, sumR, countL, countR, divL, divR) ==
    [L |-> RoundDiv(sumL, divL), R |-> RoundDiv(sumR, divR),
     sumL |-> sumL, sumR |-> sumR, countL |-> countL, countR |-> countR]

pattern0(y, lines) ==
    TapOut(TapSum(y, lines, <<0, 2, 5, 7, 9, 12, 14>>, 1),
           TapSum(y, lines, <<1, 3, 4, 6, 10, 13, 15>>, -1), 7, 7, 7, 7)

pattern1(y, lines) ==
    TapOut(TapSum(y, lines, <<0, 3, 5, 8, 11, 13>>, 1),
           TapSum(y, lines, <<0, 3, 5, 8, 11, 13>>, -1), 6, 6, 6, 6)

pattern2(y, lines) ==
    TapOut(TapSum(y, lines, <<2, 6, 9, 12>>, 1),
           TapSum(y, lines, <<1, 7, 10, 15>>, -1), 4, 4, 4, 4)

\* sum of the entries of y below `lines` whose index has the given parity
ParitySum(y, lines, parity) ==
    SumTo([i \in Lines |-> IF i % 2 = parity THEN y[i] ELSE 0], lines)

pattern3(y, lines) ==
    TapOut(ParitySum(y, lines, 0), ParitySum(y, lines, 1),
           (lines + 1) \div 2, lines \div 2,
           Max(1, (lines + 1) \div 2), Max(1, lines \div 2))

\* the copy in src/Source/ReverbCore: one counter, advanced on even indices
\* only, normalises both channels
pattern3_ReverbCore(y, lines) ==
    TapOut(ParitySum(y, lines, 0), ParitySum(y, lines, 1),
           (lines + 1) \div 2, lines \div 2,
           Max(1, (lines + 1) \div 2), Max(1, (lines + 1) \div 2))

\* variant: the remainder taken as it comes, negative values included
PatternIndex_noWrap(patternId) == CRem(patternId, 4)

PatternIndex(patternId) ==
    IF CRem(patternId, 4) < 0 THEN CRem(patternId, 4) + 4
    ELSE CRem(patternId, 4)

\* the switch on pid, pattern3 being the function of the copy at hand
PatternSwitch(y, lines, pid, p3) ==
    CASE pid = 1 -> pattern1(y, lines)
      [] pid = 2 -> pattern2(y, lines)
      [] pid = 3 -> p3
      [] OTHER -> pattern0(y, lines)

renderTapPattern(y, lines0, patternId) ==
    PatternSwitch(y, Max(1, Min(lines0, kMaxLines)), PatternIndex(patternId),
                  pattern3(y, Max(1, Min(lines0, kMaxLines))))

renderTapPattern_ReverbCore(y, lines0, patternId) ==
    PatternSwitch(y, Max(1, Min(lines0, kMaxLines)), PatternIndex(patternId),
                  pattern3_ReverbCore(y, Max(1, Min(lines0, kMaxLines))))

\* ------------------------------------------------------------------------
\* dsp::Allpass (src/unnamed/part_001, Dsp.h part)
\* ------------------------------------------------------------------------
Allpass0 == [buf |-> << >>, idx |-> 0, g |-> 7000, delaySamp |-> 200 * FX]

Allpass_init(ap, maxDelaySamples) ==
    [ap EXCEPT !.buf = [k \in 1 .. Max(1, maxDelaySamples) |-> 0], !.idx = 0]

Allpass_clear(ap) ==
    [ap EXCEPT !.buf = [k \in 1 .. Len(ap.buf) |-> 0], !.idx = 0]

\* the sample read back: d whole samples behind the cursor
Allpass_tap(ap) ==
    ap.buf[((ap.idx - (clampf(ap.delaySamp, FX, (Len(ap.buf) - 1) * FX) \div FX))
               % Len(ap.buf)) + 1]

\* process(x): the stage after the call and the value returned
Allpass_process(ap, x) ==
    IF Len(ap.buf) < 2 THEN [ap |-> ap, y |-> x]
    ELSE [ap |-> [ap EXCEPT
                     !.buf[ap.idx + 1] =
                         x + MulFx(ap.g, Allpass_tap(ap) - MulFx(ap.g, x)),
                     !.idx = IF ap.idx + 1 >= Len(ap.buf) THEN 0 ELSE ap.idx + 1],
          y |-> Allpass_tap(ap) - MulFx(ap.g, x)]

\* ------------------------------------------------------------------------
\* bigpi::core::Diffusion (src/unnamed/part_001, Diffusion.h / Diffusion.cpp)
\* times in ms and delays in samples are on the FX grid, g and samples too
\* ------------------------------------------------------------------------
kMaxInputStages == 8
kLateStages == 3
InputStages == 0 .. (kMaxInputStages - 1)
LateStages == 0 .. (kLateStages - 1)

\* ms * 0.001 * sr, split so that the products stay within 32 bits
msToSamples(ms, sRate) ==
    (ms \div 1000) * sRate + RoundDiv((ms % 1000) * sRate, 1000)

Diffusion0 ==
    [sr |-> 48000,
     inputCfg |-> [stages |-> 6, g |-> 7200,
                   timesMsL |-> [i \in InputStages |-> 0],
                   timesMsR |-> [i \in InputStages |-> 0]],
     lateCfg |-> [minG |-> 4500, maxG |-> 7200,
                  timesMsL |-> [i \in LateStages |-> 0],
                  timesMsR |-> [i \in LateStages |-> 0]],
     inL |-> [i \in InputStages |-> Allpass0],
     inR |-> [i \in InputStages |-> Allpass0],
     lateL |-> [i \in LateStages |-> Allpass0],
     lateR |-> [i \in LateStages |-> Allpass0],
     activeInputStages |-> 6,
     tvG |-> 7200,
     inited |-> FALSE]

clampInputStages(n) == Max(0, Min(n, kMaxInputStages))

\* the loop bodies of setInputConfig / setLateConfig for one chain
StagesSet(stages, timesMs, sRate, g) ==
    Arr([i \in DOMAIN stages |->
            [stages[i] EXCEPT !.delaySamp = msToSamples(timesMs[i], sRate),
                              !.g = g]])

Diffusion_setInputConfig(D, cfg) ==
    [D EXCEPT !.inputCfg = cfg,
              !.activeInputStages = clampInputStages(cfg.stages),
              !.inL = StagesSet(D.inL, cfg.timesMsL, D.sr, cfg.g),
              !.inR = StagesSet(D.inR, cfg.timesMsR, D.sr, cfg.g),
              !.tvG = cfg.g]

Diffusion_setLateConfig(D, cfg) ==
    [D EXCEPT !.lateCfg = cfg,
              !.lateL = StagesSet(D.lateL, cfg.timesMsL, D.sr, cfg.maxG),
              !.lateR = StagesSet(D.lateR, cfg.timesMsR, D.sr, cfg.maxG)]

Diffusion_clear(D) ==
    [D EXCEPT !.inL = Arr([i \in InputStages |-> Allpass_clear(D.inL[i])]),
              !.inR = Arr([i \in InputStages |-> Allpass_clear(D.inR[i])]),
              !.lateL = Arr([i \in LateStages |-> Allpass_clear(D.lateL[i])]),
              !.lateR = Arr([i \in LateStages |-> Allpass_clear(D.lateR[i])])]

BaseTimes ==
    [i \in InputStages |->
        <<12000, 21000, 37000, 59000, 86000, 121000, 164000, 200000>>[i + 1]]

\* init() up to the two config structures: sr, the buffers, the default
\* times with the seed offsets offA and offB
Diffusion_allocate(D, sRate, offA, offB) ==
    [D EXCEPT
       !.sr = sRate,
       !.inL = Arr([i \in InputStages |->
                      Allpass_init(D.inL[i], Max(16, (sRate * 30) \div 1000))]),
       !.inR = Arr([i \in InputStages |->
                      Allpass_init(D.inR[i], Max(16, (sRate * 30) \div 1000))]),
       !.lateL = Arr([i \in LateStages |->
                      Allpass_init(D.lateL[i], Max(16, (sRate * 30) \div 1000))]),
       !.lateR = Arr([i \in LateStages |->
                      Allpass_init(D.lateR[i], Max(16, (sRate * 30) \div 1000))]),
       !.inputCfg = [stages |-> 6, g |-> 7200,
           timesMsL |-> [i \in InputStages |->
                BaseTimes[i] + (IF i % 2 = 1 THEN offA ELSE offB)],
           timesMsR |-> [i \in InputStages |->
                BaseTimes[i] + (IF i % 2 = 1 THEN offB ELSE offA)]],
       !.lateCfg = [minG |-> 4500, maxG |-> 7200,
           timesMsL |-> [i \in LateStages |->
                <<42000 + offA, 73000 + offB, 115000 + offA>>[i + 1]],
           timesMsR |-> [i \in LateStages |->
                <<48000 + offB, 69000 + offA, 121000 + offB>>[i + 1]]],
       !.tvG = 7200]

Diffusion_configure(D) ==
    [Diffusion_clear(Diffusion_setLateConfig(
         Diffusion_setInputConfig(D, D.inputCfg), D.lateCfg))
       EXCEPT !.inited = TRUE]

\* seed is a 32-bit value <<high, low>>; seedN = (seed % 1000) / 1000
Diffusion_init(D, sampleRate, seed) ==
    Diffusion_configure(
        Diffusion_allocate(D, IF sampleRate <= 1 THEN 48000 ELSE sampleRate,
            800 + MulFx(1000, 10 * U32Mod(seed, 1000)),
            1100 + MulFx(1200, FX - 10 * U32Mod(seed, 1000))))

\* stages i .. n-1 of one chain, each given g and then run on the running
\* sample: the chain afterwards and the sample that comes out
RECURSIVE RunChain(_, _, _, _, _)
RunChain(stages, i, n, g, x) ==
    IF i >= n THEN [stages |-> stages, x |-> x]
    ELSE RunChain(
           [stages EXCEPT ![i] = Allpass_process([stages[i] EXCEPT !.g = g], x).ap],
           i + 1, n, g,
           Allpass_process([stages[i] EXCEPT !.g = g], x).y)

\* what a processing call hands back: the module and the two samples
DiffOut(D, L, R) == [d |-> D, L |-> L, R |-> R]

InputPass(D, cL, cR) ==
    DiffOut([D EXCEPT !.inL = cL.stages, !.inR = cR.stages], cL.x, cR.x)

Diffusion_processInput(D, L, R) ==
    IF ~D.inited \/ D.activeInputStages <= 0 THEN DiffOut(D, L, R)
    ELSE InputPass(D,
           RunChain(D.inL, 0, D.activeInputStages, clampf(D.tvG, 3000, 8500), L),
           RunChain(D.inR, 0, D.activeInputStages, clampf(D.tvG, 3000, 8500), R))

LateG(D, amount01) ==
    clampf(D.lateCfg.minG + MulFx(D.lateCfg.maxG - D.lateCfg.minG, amount01),
           2500, 8500)

LatePass(D, L, R, amount01, cL, cR) ==
    DiffOut([D EXCEPT !.lateL = cL.stages, !.lateR = cR.stages],
            MulFx(FX - amount01, L) + MulFx(amount01, cL.x),
            MulFx(FX - amount01, R) + MulFx(amount01, cR.x))

\* variant: the late chain cut to its first two stages
LateMix_twoStages(D, L, R, amount01) ==
    LatePass(D, L, R, amount01,
        RunChain(D.lateL, 0, 2, LateG(D, amount01), L),
        RunChain(D.lateR, 0, 2, LateG(D, amount01), R))

\* processLate past its two early returns, amount01 already clamped
LateMix(D, L, R, amount01) ==
    LatePass(D, L, R, amount01,
        RunChain(D.lateL, 0, kLateStages, LateG(D, amount01), L),
        RunChain(D.lateR, 0, kLateStages, LateG(D, amount01), R))

Diffusion_processLate(D, L, R, amount01) ==
    IF ~D.inited THEN DiffOut(D, L, R)
    ELSE IF clampf(amount01, 0, FX) <= 1 THEN DiffOut(D, L, R)
    ELSE LateMix(D, L, R, clampf(amount01, 0, FX))

\* ------------------------------------------------------------------------
\* ReverbEngine::prepare / processBlock (ReverbEngine.cpp): the block
\* buffers and the chunk loop.  A caller's output sample is [v, w]: the
\* value the caller put there and the number of times the call wrote it.
\* ------------------------------------------------------------------------
\* ReverbEngine::Params, the members the delay reads and the Diffusion
\* module depend on (ReverbEngine.h)
Params0 ==
    [mode |-> "Hall", predelayMs |-> 20 * FX,
     inputDiffStages |-> 6, inputDiffG |-> 7200,
     lateDiffMinG |-> 4500, lateDiffMaxG |-> 7200,
     cloudFrontEnable |-> 0, cloudFrontAmount |-> 4500,
     cloudFrontSizeMs |-> 22 * FX, cloudFrontWidth |-> 7000]

\* getModePreset (ModePresets.cpp) for the modes Hall, Spring and Sky
getModePreset(m) ==
    CASE m = "Hall" ->
           [inputDiffStages |-> 6, inputDiffG |-> 6800, lateDiffMinG |-> 4800,
            lateDiffMaxG |-> 7400, defaultPreDelay |-> 25 * FX]
      [] m = "Spring" ->
           [inputDiffStages |-> 4, inputDiffG |-> 6600, lateDiffMinG |-> 4500,
            lateDiffMaxG |-> 7200, defaultPreDelay |-> 0]
      [] OTHER ->
           [inputDiffStages |-> 8, inputDiffG |-> 7800, lateDiffMinG |-> 4500,
            lateDiffMaxG |-> 7200, defaultPreDelay |-> 28 * FX]

\* the engine: sample values are left out, the record holds what the
\* chunking, the delay reads and the Diffusion configuration depend on
Engine0 ==
    [prepared |-> FALSE, block |-> 64,
     size |-> [wetL |-> 0, wetR |-> 0, erL |-> 0, erR |-> 0],
     sr |-> 48000, target |-> Params0, diffusion |-> Diffusion0]

\* InputConfig inCfg = {}; LateConfig lateCfg = {}; with stages, g, minG
\* and maxG taken from target, handed to the Diffusion module
Engine_pushDiffusion(E) ==
    [E EXCEPT !.diffusion =
        Diffusion_setLateConfig(
            Diffusion_setInputConfig(@,
                [stages |-> E.target.inputDiffStages, g |-> E.target.inputDiffG,
                 timesMsL |-> [i \in InputStages |-> 0],
                 timesMsR |-> [i \in InputStages |-> 0]]),
            [minG |-> E.target.lateDiffMinG, maxG |-> E.target.lateDiffMaxG,
             timesMsL |-> [i \in LateStages |-> 0],
             timesMsR |-> [i \in LateStages |-> 0]])]

Engine_applyModePreset(E, m) ==
    Engine_pushDiffusion(
        [E EXCEPT !.target = [@ EXCEPT
            !.inputDiffStages = getModePreset(m).inputDiffStages,
            !.inputDiffG = getModePreset(m).inputDiffG,
            !.lateDiffMinG = getModePreset(m).lateDiffMinG,
            !.lateDiffMaxG = getModePreset(m).lateDiffMaxG,
            !.predelayMs = getModePreset(m).defaultPreDelay,
            !.cloudFrontEnable = IF m = "Sky" THEN FX ELSE 0,
            !.cloudFrontAmount = IF m = "Sky" THEN 4800 ELSE @,
            !.cloudFrontSizeMs = IF m = "Sky" THEN 24 * FX ELSE @,
            !.cloudFrontWidth = IF m = "Sky" THEN 7500 ELSE @]])

Engine_reset(E) ==
    IF ~E.prepared THEN E
    ELSE [E EXCEPT !.diffusion = Diffusion_clear(@)]

\* prepare() up to the preset: sr, the block buffers, the Diffusion module
Engine_allocate(E, sampleRate, blockSize) ==
    [E EXCEPT !.sr = IF sampleRate <= 1 THEN 48000 ELSE sampleRate,
              !.block = Max(1, blockSize),
              !.size = [wetL |-> Max(1, blockSize), wetR |-> Max(1, blockSize),
                        erL |-> Max(1, blockSize), erR |-> Max(1, blockSize)],
              !.diffusion = Diffusion_init(@,
                    IF sampleRate <= 1 THEN 48000 ELSE sampleRate,
                    <<45419, 181>>)]

Engine_prepare(E, sampleRate, blockSize) ==
    Engine_reset(
        [Engine_applyModePreset(Engine_allocate(E, sampleRate, blockSize),
                                E.target.mode)
           EXCEPT !.prepared = TRUE])

Engine_setParams(E, p) ==
    Engine_pushDiffusion(
        IF p.mode # E.target.mode
        THEN Engine_applyModePreset([E EXCEPT !.target = p], p.mode)
        ELSE [E EXCEPT !.target = p])

\* the delay handed to preL / preR.readFracCubic in the predelay stage
PreSamp(E) == msToSamples(clampf(E.target.predelayMs, 0, 200 * FX), E.sr)

kCloudTaps == 8

kTapPos == <<600, 1200, 2000, 3100, 4500, 6200, 8000, 10000>>

kTapSign(t) == IF t % 2 = 1 THEN 1 ELSE -1

CfAmt(E) ==
    MulFx(clampf(E.target.cloudFrontAmount, 0, FX),
          IF E.target.cloudFrontEnable > 1 THEN FX ELSE 0)

CfSizeSamp(E) == msToSamples(clampf(E.target.cloudFrontSizeMs, 0, 120 * FX), E.sr)

WidthSkewSamp(E) ==
    MulFx(clampf(E.target.cloudFrontWidth, 0, FX), msToSamples(4500, E.sr))

\* the delays dL and dR handed to readFracCubic by the cloud front-end taps
CloudTapDelays(E) ==
    IF CfAmt(E) > 0 /\ CfSizeSamp(E) > 0
    THEN { Max(FX, PreSamp(E) + MulFx(kTapPos[t], CfSizeSamp(E))
                      + side * kTapSign(t) * WidthSkewSamp(E)) :
              t \in 1 .. kCloudTaps, side \in {1, -1} }
    ELSE {}

\* variant: the whole remainder taken as one chunk
ChunkLen_whole(block, remaining) == remaining

ChunkLen(block, remaining) == Min(block, remaining)

\* one pass of the while loop for the chunk at pos: the output samples
\* pos .. pos+chunk-1 written once more, the block buffers indexed at
\* 0 .. chunk-1
ChunkPass(r, pos, chunk) ==
    [out |-> [i \in DOMAIN r.out |->
                 IF pos <= i /\ i < pos + chunk
                 THEN [r.out[i] EXCEPT !.w = @ + 1] ELSE r.out[i]],
     chunks |-> Append(r.chunks, <<pos, chunk>>),
     wetMax |-> Max(r.wetMax, chunk - 1)]

RECURSIVE ChunkLoop(_, _, _, _)
ChunkLoop(block, n, pos, r) ==
    IF pos >= n THEN r
    ELSE ChunkLoop(block, n, pos + ChunkLen(block, n - pos),
                   ChunkPass(r, pos, ChunkLen(block, n - pos)))

\* processBlock on the caller's output buffer `out` for n samples: the
\* buffer afterwards, the chunks taken and the highest index used in the
\* block buffers (-1 when none was used)
\* reads: the delays handed to readFracCubic during the call; e: the engine
\* after it (setTimeVaryingG at each chunk)
BlockResult(E, c, reads) ==
    [out |-> c.out, chunks |-> c.chunks, wetMax |-> c.wetMax, reads |-> reads,
     e |-> E]

Engine_processBlock(E, out, n) ==
    IF ~E.prepared \/ n <= 0
    THEN BlockResult(E, [out |-> out, chunks |-> << >>, wetMax |-> -1], {})
    ELSE BlockResult([E EXCEPT !.diffusion.tvG = E.target.inputDiffG],
             ChunkLoop(E.block, n, 0,
                       [out |-> out, chunks |-> << >>, wetMax |-> -1]),
             {PreSamp(E)} \cup CloudTapDelays(E))

\* ------------------------------------------------------------------------
\* Tank::Config (Tank.h) with its default member initialisers
\* ------------------------------------------------------------------------
ZeroVec == [i \in Lines |-> 0]

ConfigDefault ==
    [lines |-> 16, matrix |-> "Householder", delaySamp |-> ZeroVec,
     fbHpHz |-> 30, dampHz |-> 9000, xoverLoHz |-> 250, xoverHiHz |-> 3500,
     decayLowMul |-> 10800, decayMidMul |-> 10000, decayHighMul |-> 9000,
     drive |-> 12000, satMix |-> 2500,
     modDepthSamples |-> 0, modRateHz |-> 250,
     modDepthMul |-> ZeroVec, modRateMul |-> ZeroVec,
     jitterEnable |-> 10000, jitterAmount |-> 3500,
     jitterRateHz |-> 350, jitterSmoothMs |-> 800,
     cloudEnable |-> 0, cloudSpinHz |-> 45, cloudWanderAmount |-> 5500,
     cloudWanderRateHz |-> 80, cloudWanderSmoothMs |-> 5000,
     dynEnable |-> 10000, dynAmount |-> 6500, dynMinHz |-> 3500,
     dynMaxHz |-> 12000, dynSensitivity |-> 30000,
     dynAtkMs |-> 120, dynRelMs |-> 2800]

\* ------------------------------------------------------------------------
\* Tank: the object after default construction (Tank.h member initialisers)
\* ------------------------------------------------------------------------
Tank0 ==
    [sr |-> 48000, inited |-> FALSE, cfg |-> ConfigDefault,
     d |-> [i \in Lines |-> DelayLine0],
     hp |-> [i \in Lines |-> OnePole0], lp |-> [i \in Lines |-> OnePole0],
     xLo |-> [i \in Lines |-> OnePole0], xHi |-> [i \in Lines |-> OnePole0],
     jitter |-> [i \in Lines |-> SmoothNoise0],
     cloudNoise |-> [i \in Lines |-> SmoothNoise0],
     cloudPhaseOffset |-> ZeroVec, cloudPhase |-> 0,
     envFollower |-> Env0, env01 |-> 0,
     dynDampHzCurrent |-> 9000,
     lastDecay01 |-> -10000,
     fbGainLow |-> ZeroVec, fbGainMid |-> ZeroVec, fbGainHigh |-> ZeroVec,
     lastY |-> ZeroVec,
     seed |-> <<4660, 22136>>]

\* 0.49f * sr
Nyq49(sRate) == RoundDiv(49 * sRate, 100)

\* ------------------------------------------------------------------------
\* Tank.cpp: RT60 decay model
\* ------------------------------------------------------------------------
\* rt60Min * pow(rt60Max / rt60Min, decay01), in microseconds
decay01ToRt60Sec(decay01) ==
    LET dc == clampf(decay01, 0, FX)
    IN MulFx(Exp(MulFx(dc, 40943)), 200000)

\* exp(log(0.001) * delaySec / rt60Sec), both times in microseconds
rt60ToFeedbackGain(delaySec, rt60Sec) ==
    LET rt == Max(10000, rt60Sec)
        ds == Max(0, delaySec)
    IN Exp(MulFx(-69078, DivFx(ds, rt)))

\* ------------------------------------------------------------------------
\* Tank::clear
\* ------------------------------------------------------------------------
Tank_clear(T) ==
    [T EXCEPT !.d = [i \in Lines |-> DelayLine_clear(T.d[i])],
              !.hp = [i \in Lines |-> OnePole_clear(T.hp[i])],
              !.lp = [i \in Lines |-> OnePole_clear(T.lp[i])],
              !.xLo = [i \in Lines |-> OnePole_clear(T.xLo[i])],
              !.xHi = [i \in Lines |-> OnePole_clear(T.xHi[i])],
              !.jitter = [i \in Lines |-> SmoothNoise_clear(T.jitter[i])],
              !.cloudNoise = [i \in Lines |-> SmoothNoise_clear(T.cloudNoise[i])],
              !.lastY = ZeroVec,
              !.envFollower = Env_clear(T.envFollower),
              !.env01 = 0,
              !.dynDampHzCurrent = T.cfg.dampHz,
              !.cloudPhase = 0]

\* ------------------------------------------------------------------------
\* Tank::init
\* ------------------------------------------------------------------------
\* xorshift step of the lambda rnd
XorShift(x) ==
    LET x1 == U32Xor(x, U32Shl13(x))
        x2 == U32Xor(x1, U32Shr17(x1))
    IN U32Xor(x2, U32Shl5(x2))

\* Fisher-Yates loop: for (i = kMaxLines - 1; i > 0; --i)
RECURSIVE ShuffleIdx(_, _, _)
ShuffleIdx(idx, x, i) ==
    IF i <= 0 THEN idx
    ELSE LET x2 == XorShift(x)
             j  == U32Mod(x2, i + 1)
         IN ShuffleIdx([idx EXCEPT ![i] = idx[j], ![j] = idx[i]], x2, i - 1)

CloudPhaseOffsets(sd) ==
    LET idx == ShuffleIdx([i \in Lines |-> i], U32Xor(sd, <<42257, 59827>>),
                          kMaxLines - 1)
    IN [l \in Lines |->
          LET i == CHOOSE k \in Lines : idx[k] = l
          IN RoundDiv(TwoPiU * i, kMaxLines)]

InitNoise(n, sRate, sd, rate, smooth) ==
    SmoothNoise_setSmoothMs(
      SmoothNoise_setRateHz(
        SmoothNoise_seed(SmoothNoise_setSampleRate(n, sRate), sd), rate),
      smooth)

Tank_init(T, sampleRate, maxDelaySamples0, s) ==
    LET sRate == IF sampleRate <= 1 THEN 48000 ELSE sampleRate
        sd    == IF s = <<0, 0>> THEN <<0, 1>> ELSE s
        maxDelaySamples == Max(8, maxDelaySamples0)
        env1  == Env_clear(Env_setAttackReleaseMs(
                    Env_setSampleRate(T.envFollower, sRate), 120, 2800))
        T1 == [T EXCEPT
                 !.sr = sRate,
                 !.seed = sd,
                 !.d = [i \in Lines |-> DelayLine_init(maxDelaySamples)],
                 !.jitter = [i \in Lines |->
                     InitNoise(T.jitter[i], sRate,
                        U32Add(sd, U32MulSmall(<<40503, 31161>>, i + 1)),
                        350, 800)],
                 !.cloudNoise = [i \in Lines |->
                     InitNoise(T.cloudNoise[i], sRate,
                        U32Add(sd, U32MulSmall(<<32586, 31765>>, i + 1)),
                        80, 5000)],
                 !.hp = [i \in Lines |-> OnePole_clear(T.hp[i])],
                 !.lp = [i \in Lines |-> OnePole_clear(T.lp[i])],
                 !.xLo = [i \in Lines |-> OnePole_clear(T.xLo[i])],
                 !.xHi = [i \in Lines |-> OnePole_clear(T.xHi[i])],
                 !.lastY = ZeroVec,
                 !.envFollower = env1,
                 !.env01 = 0,
                 !.cloudPhaseOffset = CloudPhaseOffsets(sd),
                 !.cloudPhase = 0,
                 !.inited = TRUE]
    IN Tank_clear(T1)

\* ------------------------------------------------------------------------
\* Tank::setConfig
\* ------------------------------------------------------------------------
\* variant: the requested line count stored as given
ClampLines_asGiven(n) == n

ClampLines(n) == Max(1, Min(n, kMaxLines))

ClampConfig(c, sRate) ==
    LET nyq  == Nyq49(sRate)
        xLoC == clampf(c.xoverLoHz, 30, nyq)
        dMin == clampf(c.dynMinHz, 50, nyq)
    IN [c EXCEPT
          !.lines = ClampLines(c.lines),
          !.fbHpHz = clampf(c.fbHpHz, 5, nyq),
          !.dampHz = clampf(c.dampHz, 20, nyq),
          !.xoverLoHz = xLoC,
          !.xoverHiHz = clampf(c.xoverHiHz, xLoC + 10, nyq),
          !.drive = clampf(c.drive, 0, 10 * FX),
          !.satMix = clampf(c.satMix, 0, FX),
          !.modRateHz = clampf(c.modRateHz, 10, 20000),
          !.modDepthSamples = clampf(c.modDepthSamples, 0, 2000 * FX),
          !.jitterEnable = clampf(c.jitterEnable, 0, FX),
          !.jitterAmount = clampf(c.jitterAmount, 0, 2 * FX),
          !.jitterRateHz = clampf(c.jitterRateHz, 10, 20000),
          !.jitterSmoothMs = clampf(c.jitterSmoothMs, 10, 20000),
          !.cloudEnable = clampf(c.cloudEnable, 0, FX),
          !.cloudSpinHz = clampf(c.cloudSpinHz, 0, 1000),
          !.cloudWanderAmount = clampf(c.cloudWanderAmount, 0, 2 * FX),
          !.cloudWanderRateHz = clampf(c.cloudWanderRateHz, 0, 2000),
          !.cloudWanderSmoothMs = clampf(c.cloudWanderSmoothMs, 10, 50000),
          !.dynEnable = clampf(c.dynEnable, 0, FX),
          !.dynAmount = clampf(c.dynAmount, 0, FX),
          !.dynSensitivity = clampf(c.dynSensitivity, 0, 10 * FX),
          !.dynMinHz = dMin,
          !.dynMaxHz = clampf(c.dynMaxHz, dMin, nyq),
          !.dynAtkMs = clampf(c.dynAtkMs, 1, 20000),
          !.dynRelMs = clampf(c.dynRelMs, 1, 50000)]

\* variant: a setConfig() that also flushes the filter memories
Tank_setConfig_flush(T, c) ==
    LET cc == ClampConfig(c, T.sr)
        cut(f, hz) == OnePole_clear(OnePole_setCutoff(f, hz, T.sr))
    IN [T EXCEPT
          !.cfg = cc,
          !.hp = [i \in Lines |-> cut(T.hp[i], cc.fbHpHz)],
          !.lp = [i \in Lines |-> cut(T.lp[i], cc.dampHz)],
          !.xLo = [i \in Lines |-> cut(T.xLo[i], cc.xoverLoHz)],
          !.xHi = [i \in Lines |-> cut(T.xHi[i], cc.xoverHiHz)],
          !.dynDampHzCurrent = cc.dampHz,
          !.lastDecay01 = -10000]

\* variant: a setConfig() that rebuilds the tank from its defaults
Tank_setConfig_rebuild(T, c) ==
    [Tank0 EXCEPT !.sr = T.sr, !.cfg = ClampConfig(c, T.sr)]

Tank_setConfig(T, c) ==
    LET cc == ClampConfig(c, T.sr)
        on(i) == i < cc.lines
    IN [T EXCEPT
          !.cfg = cc,
          !.hp = [i \in Lines |-> IF on(i)
                     THEN OnePole_setCutoff(T.hp[i], cc.fbHpHz, T.sr)
                     ELSE T.hp[i]],
          !.lp = [i \in Lines |-> IF on(i)
                     THEN OnePole_setCutoff(T.lp[i], cc.dampHz, T.sr)
                     ELSE T.lp[i]],
          !.xLo = [i \in Lines |-> IF on(i)
                     THEN OnePole_setCutoff(T.xLo[i], cc.xoverLoHz, T.sr)
                     ELSE T.xLo[i]],
          !.xHi = [i \in Lines |-> IF on(i)
                     THEN OnePole_setCutoff(T.xHi[i], cc.xoverHiHz, T.sr)
                     ELSE T.xHi[i]],
          !.jitter = [i \in Lines |-> IF on(i)
                     THEN SmoothNoise_setSmoothMs(
                            SmoothNoise_setRateHz(T.jitter[i], cc.jitterRateHz),
                            cc.jitterSmoothMs)
                     ELSE T.jitter[i]],
          !.cloudNoise = [i \in Lines |-> IF on(i)
                     THEN SmoothNoise_setSmoothMs(
                            SmoothNoise_setRateHz(T.cloudNoise[i],
                                                  cc.cloudWanderRateHz),
                            cc.cloudWanderSmoothMs)
                     ELSE T.cloudNoise[i]],
          !.envFollower = Env_setAttackReleaseMs(T.envFollower,
                                                 cc.dynAtkMs, cc.dynRelMs),
          !.dynDampHzCurrent = cc.dampHz,
          !.lastDecay01 = -10000]

\* ------------------------------------------------------------------------
\* Tank::computeDynamicDampingHz
\* ------------------------------------------------------------------------
computeDynamicDampingHz(T, staticDampHz, env01Now) ==
    LET e     == clampf(MulFx(env01Now, T.cfg.dynSensitivity), 0, FX)
        dynHz == T.cfg.dynMaxHz + MulFx(T.cfg.dynMinHz - T.cfg.dynMaxHz, e)
        amt   == clampf(T.cfg.dynAmount, 0, FX)
        outHz == MulFx(staticDampHz, FX - amt) + MulFx(dynHz, amt)
    IN clampf(outHz, 20, Nyq49(T.sr))

\* ------------------------------------------------------------------------
\* Tank::updateDecayGains
\* ------------------------------------------------------------------------
\* the clamped gain of one line for one band's RT60
GainCeiling == 9997

\* variant: the RT60 gain without the safety ceiling
LineGain_unclamped(delaySec, rt60) == rt60ToFeedbackGain(delaySec, rt60)

LineGain(delaySec, rt60) == clampf(rt60ToFeedbackGain(delaySec, rt60), 0, GainCeiling)

Tank_updateDecayGains(T, decay01) ==
    IF decay01 = T.lastDecay01 THEN T
    ELSE
      LET rt60Base == decay01ToRt60Sec(decay01)
          rt60Low  == MulFx(rt60Base, Max(1000, T.cfg.decayLowMul))
          rt60Mid  == MulFx(rt60Base, Max(1000, T.cfg.decayMidMul))
          rt60High == MulFx(rt60Base, Max(1000, T.cfg.decayHighMul))
          N == ClampLines(T.cfg.lines)
          delaySec(i) == RoundDiv(Max(FX, T.cfg.delaySamp[i]) * 100, T.sr)
      IN [T EXCEPT
            !.lastDecay01 = decay01,
            !.fbGainLow = Arr([i \in Lines |-> IF i < N
                              THEN LineGain(delaySec(i), rt60Low)
                              ELSE T.fbGainLow[i]]),
            !.fbGainMid = Arr([i \in Lines |-> IF i < N
                              THEN LineGain(delaySec(i), rt60Mid)
                              ELSE T.fbGainMid[i]]),
            !.fbGainHigh = Arr([i \in Lines |-> IF i < N
                              THEN LineGain(delaySec(i), rt60High)
                              ELSE T.fbGainHigh[i]])]

\* ------------------------------------------------------------------------
\* Tank::processSampleVec / Tank::processSample
\* ------------------------------------------------------------------------
\* cfg.x > 0.0001f
Enabled(x) == x > 1

\* advance of the global spin phase, once per sample
CloudPhaseNext(T) ==
    IF Enabled(T.cfg.cloudEnable) /\ T.cfg.cloudSpinHz > 0
    THEN LET p == T.cloudPhase
                   + RoundDiv(RoundDiv(TwoPiU, T.sr) * T.cfg.cloudSpinHz, 1000)
         IN IF p >= TwoPiU THEN p - TwoPiU ELSE p
    ELSE T.cloudPhase

\* the per-line oscillation of the read loop, lines 0 .. N-1 in order:
\* the LFO bank after the loop and the value each line obtained
\* variant: the shared bank stepped for every line in cloud mode as well
RECURSIVE LfoPass_bankAlways(_, _, _, _, _)
LfoPass_bankAlways(T, phase, acc, i, N) ==
    IF i >= N THEN acc
    ELSE LfoPass_bankAlways(T, phase,
             [bank |-> MultiLFO_step(acc.bank, i,
                           MulFx(T.cfg.modRateHz, T.cfg.modRateMul[i])),
              out  |-> [acc.out EXCEPT ![i] =
                           IF Enabled(T.cfg.cloudEnable)
                           THEN Sin(phase + T.cloudPhaseOffset[i])
                           ELSE MultiLFO_out(acc.bank, i)]],
             i + 1, N)

RECURSIVE LfoPass(_, _, _, _, _)
LfoPass(T, phase, acc, i, N) ==
    IF i >= N THEN acc
    ELSE IF Enabled(T.cfg.cloudEnable)
    THEN LfoPass(T, phase,
                 [acc EXCEPT !.out[i] = Sin(phase + T.cloudPhaseOffset[i])],
                 i + 1, N)
    ELSE LfoPass(T, phase,
                 [bank |-> MultiLFO_step(acc.bank, i,
                               MulFx(T.cfg.modRateHz, T.cfg.modRateMul[i])),
                  out  |-> [acc.out EXCEPT ![i] = MultiLFO_out(acc.bank, i)]],
                 i + 1, N)

RECURSIVE PeakAbs(_, _)
PeakAbs(y, n) == IF n <= 0 THEN 0 ELSE Max(PeakAbs(y, n - 1), Abs(y[n - 1]))

\* read delay of line i for the modulation values lfo, jit, wander
LineDelay(T, i, lfo, jit, wander) ==
    LET depthMul == T.cfg.modDepthMul[i]
        mod == MulFx(T.cfg.modDepthSamples,
                     MulFx(lfo, depthMul)
                     + MulFx(MulFx(T.cfg.jitterEnable, T.cfg.jitterAmount), jit)
                     + MulFx(wander, depthMul))
    IN Max(FX, T.cfg.delaySamp[i] + mod)

\* the four filters of line i after taking the mixed value fbIn
FilterChain(T, i, fbIn) ==
    LET hp2 == OnePole_step(T.hp[i], fbIn)
        lp2 == OnePole_step(T.lp[i], fbIn - hp2.z)
    IN [hp |-> hp2, lp |-> lp2,
        xLo |-> OnePole_step(T.xLo[i], lp2.z),
        xHi |-> OnePole_step(T.xHi[i], lp2.z)]

\* band split, per-band decay gains and saturation of line i, from its
\* filters f after the sample: the value pushed back (before injection)
ColourBands(T, i, f) ==
    LET fb     == f.lp.z
        low    == f.xLo.z
        lowMid == f.xHi.z
        fbColored == MulFx(low, T.fbGainLow[i])
                     + MulFx(lowMid - low, T.fbGainMid[i])
                     + MulFx(fb - lowMid, T.fbGainHigh[i])
    IN SatBlend(fbColored, T.cfg.drive, T.cfg.satMix)

\* feedback colouring of one line: the filters after the sample and the
\* value pushed back
FeedbackLine(T, i, fbIn) ==
    [filters |-> FilterChain(T, i, fbIn),
     fbFinal |-> ColourBands(T, i, FilterChain(T, i, fbIn))]

\* the tank after the global spin phase advanced
SpinCloud(T) == [T EXCEPT !.cloudPhase = CloudPhaseNext(T)]

\* the read loop over the lines 0 .. N-1: the reads y, the LFO bank and the
\* tank (noise generators, lastY) after it
ReadLoop(T, L, N) ==
    LET cloud == Enabled(T.cfg.cloudEnable)
        jitOn == Enabled(T.cfg.jitterEnable)
        lfo == LfoPass(T, T.cloudPhase, [bank |-> L, out |-> ZeroVec], 0, N)
        jitter2 == Arr([i \in Lines |-> IF i < N /\ jitOn
                       THEN SmoothNoise_process(T.jitter[i]) ELSE T.jitter[i]])
        cloud2 == Arr([i \in Lines |-> IF i < N /\ cloud
                       THEN SmoothNoise_process(T.cloudNoise[i])
                       ELSE T.cloudNoise[i]])
        jit(i) == IF jitOn THEN clampf(jitter2[i].y, -FX, FX) ELSE 0
        wander(i) == IF cloud
                     THEN MulFx(T.cfg.cloudWanderAmount,
                                clampf(cloud2[i].y, -FX, FX))
                     ELSE 0
    IN [lfoBank |-> lfo.bank, jitter |-> jitter2, cloudNoise |-> cloud2,
        y |-> Arr([i \in Lines |-> IF i < N
                 THEN DelayLine_readFracCubic(T.d[i],
                          LineDelay(T, i, lfo.out[i], jit(i), wander(i)))
                 ELSE 0])]

\* the tank after the read loop r
AfterReadLoop(T, N, r) ==
    [T EXCEPT !.jitter = r.jitter,
              !.cloudNoise = r.cloudNoise,
              !.lastY = Arr([i \in Lines |-> IF i < N THEN r.y[i]
                                            ELSE T.lastY[i]])]

\* the tank after the envelope follower took the peak of the reads
FollowEnvelope(T, e) ==
    [T EXCEPT !.envFollower = e, !.env01 = clampf(2 * e.env, 0, FX)]

\* the smoothed damping cutoff of this sample
DampingNow(T) ==
    LET dampHzEffective ==
            IF Enabled(T.cfg.dynEnable)
            THEN computeDynamicDampingHz(T, T.cfg.dampHz, T.env01)
            ELSE clampf(T.cfg.dampHz, 20, Nyq49(T.sr))
    IN RoundDiv(995 * T.dynDampHzCurrent + 5 * dampHzEffective, 1000)

\* exp(-2 pi dynDampHzCurrent / sr)
LpCoeff(dynDamp, sRate) == Exp(-MulFx(62832, DivFx(dynDamp, sRate)))

\* the tank after the damping update to the cutoff dynDamp
UpdateDampingTo(T, N, dynDamp) ==
    [T EXCEPT !.dynDampHzCurrent = dynDamp,
              !.lp = Arr([i \in Lines |-> IF i < N
                            THEN [T.lp[i] EXCEPT !.a = LpCoeff(dynDamp, T.sr)]
                            ELSE T.lp[i]])]

UpdateDampingOf(T, N) == UpdateDampingTo(T, N, DampingNow(T))

\* the tank up to and including updateDecayGains, from the read loop r
BeforeFeedback(T, N, r, baseDecay) ==
    Tank_updateDecayGains(
        UpdateDampingOf(
            FollowEnvelope(AfterReadLoop(T, N, r),
                           Env_process(T.envFollower, PeakAbs(r.y, N))),
            N),
        baseDecay)

\* the feedback loop over the lines 0 .. N-1, fbk[i] being FeedbackLine of
\* line i: filters stored, injection plus feedback pushed
FeedbackLoop(T, N, inj, fbk) ==
    [T EXCEPT
       !.hp = Arr([i \in Lines |-> IF i < N THEN fbk[i].filters.hp ELSE T.hp[i]]),
       !.lp = Arr([i \in Lines |-> IF i < N THEN fbk[i].filters.lp ELSE T.lp[i]]),
       !.xLo = Arr([i \in Lines |-> IF i < N THEN fbk[i].filters.xLo
                                    ELSE T.xLo[i]]),
       !.xHi = Arr([i \in Lines |-> IF i < N THEN fbk[i].filters.xHi
                                    ELSE T.xHi[i]]),
       !.d = Arr([i \in Lines |-> IF i < N
                     THEN DelayLine_push(T.d[i], inj[i] + fbk[i].fbFinal)
                     ELSE T.d[i]])]

FeedbackAll(T, N, yMixed) ==
    Arr([i \in Lines |-> IF i < N THEN FeedbackLine(T, i, yMixed[i])
                         ELSE [fbFinal |-> 0]])

\* variant: handing back the mixed vector
OutVec_mixed(yRead, yMixed) == yMixed

\* which vector a processing call hands back in yOut: the delay-line reads
OutVec(yRead, yMixed) == yRead

\* what a processing call leaves behind, from the read loop r, the mixed
\* vector yMixed and the tank T2 as it enters the feedback loop
StepResult(T2, N, yo, inj, r, yMixed) ==
    [tank |-> FeedbackLoop(T2, N, inj, FeedbackAll(T2, N, yMixed)),
     lfoBank |-> r.lfoBank,
     yOut |-> Arr([i \in Lines |-> IF i < N THEN OutVec(r.y, yMixed)[i]
                                   ELSE yo[i]]),
     fbIn |-> yMixed]

AfterRead(T1, N, yo, baseDecay, inj, r) ==
    StepResult(BeforeFeedback(T1, N, r, baseDecay), N, yo, inj, r,
               mix(r.y, N, T1.cfg.matrix))

\* the body of a processing call on an initialised tank; inj[i] is the
\* injection added to line i
TankStepN(T1, L, N, yo, baseDecay, inj) ==
    AfterRead(T1, N, yo, baseDecay, inj, ReadLoop(T1, L, N))

TankStep(T, L, yo, baseDecay0, inj) ==
    TankStepN(SpinCloud(T), L, ClampLines(T.cfg.lines), yo,
              clampf(baseDecay0, 0, 9995), inj)

\* a processing call on a tank that was never initialised
Silent(T, L) == [tank |-> T, lfoBank |-> L, yOut |-> ZeroVec, fbIn |-> ZeroVec]

\* variant: processing without the initialised guard
Tank_processSampleVec_unguarded(T, L, yo, injVec, baseDecay) ==
    TankStep(T, L, yo, baseDecay, injVec)

Tank_processSampleVec(T, L, yo, injVec, baseDecay) ==
    IF ~T.inited THEN Silent(T, L)
    ELSE TankStep(T, L, yo, baseDecay, injVec)

\* variant: the whole scalar injected into every line
InjPerLine_whole(inj, N) == inj

\* inj / float(N)
InjPerLine(inj, N) == RoundDiv(inj, N)

Tank_processSample(T, L, yo, inj, baseDecay) ==
    IF ~T.inited THEN Silent(T, L)
    ELSE LET injPerLine == InjPerLine(inj, ClampLines(T.cfg.lines))
         IN TankStep(T, L, yo, baseDecay, [i \in Lines |-> injPerLine])

\* ------------------------------------------------------------------------
\* State
\* ------------------------------------------------------------------------
VARIABLES
    tank,      \* the Tank object (its data members)
    lfoBank,   \* the caller's dsp::MultiLFO handed to the processing calls
    yOut,      \* the caller's output array handed to the processing calls
    fbIn,      \* the vector the last processing call fed to its feedback filters
    lastOp,    \* the member function called last
    nProc, nCfg, nInit, nClear,  \* calls made so far, by kind
    zeroRun,   \* zero-injection processSampleVec calls made since the last
               \* clear() with no other call in between; -1 outside such a run
    mIn,       \* the array handed to a mixing function
    mN,        \* the line count handed to it
    mOut,      \* the array after the call (the functions mix in place)
    mOp,       \* the mixing function called last
    dline,     \* a DelayLine on its own: the line, the calls made on it
               \* and the result of the last read
    tap,       \* one renderTapPattern call: its arguments and what it left
               \* in wetL and wetR
    diff,      \* a Diffusion module on its own: the module, the calls made
               \* on it, the arguments and results of the last call
    eng,       \* the engine's block buffers, and the last processBlock call
    dec,       \* the measurement of one impulse response of the Tank: the
               \* samples processed since the impulse, the energy of the
               \* output vector now and its peak so far
    jit,       \* a host running the Tank block by block: the block length,
               \* whether it applies the configuration again before every
               \* block, the samples done of the current block, the random
               \* targets line 0 has drawn so far
    sat        \* the saturation stage of the feedback on its own: the sample,
               \* drive and mix handed to it and the value it returned

tankVars == <<tank, lfoBank, yOut, fbIn, lastOp, nProc, nCfg, nInit, nClear,
              zeroRun>>
mixVars == <<mIn, mN, mOut, mOp>>
unitVars == <<dline, tap, diff, eng, dec, jit, sat>>
vars == <<tank, lfoBank, yOut, fbIn, lastOp, nProc, nCfg, nInit, nClear,
          zeroRun, mIn, mN, mOut, mOp, dline, tap, diff, eng, dec, jit, sat>>

\* ------------------------------------------------------------------------
\* Inputs
\* ------------------------------------------------------------------------
InitInputs ==
    { [sampleRate |-> 0, maxDelaySamples |-> 0, seed |-> <<0, 0>>],
      [sampleRate |-> 8000, maxDelaySamples |-> 9, seed |-> <<192, 65518>>] }

OnesVec == [i \in Lines |-> FX]

CfgHall ==
    [ConfigDefault EXCEPT
        !.lines = 8, !.matrix = "Hadamard",
        !.delaySamp = [i \in Lines |-> (1 + (i % 3)) * FX + 2500 * (i % 2)],
        !.modDepthSamples = 5000, !.modRateHz = 20000,
        !.modDepthMul = OnesVec, !.modRateMul = OnesVec,
        !.fbHpHz = -10, !.dampHz = 100000]

CfgCloud ==
    [ConfigDefault EXCEPT
        !.lines = 20, !.cloudEnable = FX, !.cloudSpinHz = 5000,
        !.decayLowMul = 0, !.decayHighMul = 500000,
        !.xoverLoHz = 30000, !.xoverHiHz = 100,
        !.modDepthSamples = 30000 * FX,
        !.modDepthMul = [i \in Lines |-> 5000],
        !.delaySamp = [i \in Lines |-> 100 * FX]]

CfgMono ==
    [ConfigDefault EXCEPT
        !.lines = -3, !.jitterEnable = 0, !.dynEnable = 0,
        !.decayMidMul = 80000,
        !.satMix = 20000, !.drive = 200000,
        !.dynMinHz = 99999, !.dynMaxHz = 10]

CfgOdd ==
    [ConfigDefault EXCEPT
        !.lines = 5, !.matrix = "Hadamard",
        !.delaySamp = [i \in Lines |-> 2 * FX]]

ConfigInputs == {CfgHall, CfgCloud, CfgMono, CfgOdd}

AltVec == [i \in Lines |-> IF i % 2 = 0 THEN 1200 ELSE -700]

\* what the caller's output array may hold before the first call
StaleVec == [i \in Lines |-> 300 + i]
CallerArrays == {ZeroVec, StaleVec}

ScalarInputs == { <<1600, 20000>> }
VecInputs == { <<ZeroVec, 5000>>, <<AltVec, -1000>> }

\* ------------------------------------------------------------------------
\* Specification of the Tank under arbitrary calls
\* ------------------------------------------------------------------------
TankStart ==
    /\ tank = Tank0
    /\ lfoBank = MultiLFO_init(16, 48000)
    /\ fbIn = ZeroVec
    /\ lastOp = "none"
    /\ nProc = 0 /\ nCfg = 0 /\ nInit = 0 /\ nClear = 0
    /\ zeroRun = -1

MixIdle == mIn = ZeroVec /\ mN = kMaxLines /\ mOut = ZeroVec /\ mOp = "none"

\* a default-constructed DelayLine on which nothing has been called
DelayIdle ==
    [dl |-> DelayLine0, age |-> 0, pushes |-> 0, clears |-> 0, out |-> 0,
     k |-> 0, delay |-> 0, op |-> "none"]

TapIdle ==
    [y |-> ZeroVec, lines |-> kMaxLines, patternId |-> 0,
     out |-> TapOut(0, 0, 0, 0, 1, 1), op |-> "none"]

DiffIdle ==
    [d |-> Diffusion0, nProc |-> 0, nIn |-> 0, nLate |-> 0, nTv |-> 0,
     nInit |-> 0, nClear |-> 0, in |-> <<0, 0>>, amount |-> 0,
     out |-> <<0, 0>>, op |-> "none"]

EngIdle ==
    [e |-> Engine0, nProc |-> 0, nInit |-> 0, nCfg |-> 0, n |-> 0,
     r |-> [out |-> << >>, chunks |-> << >>, wetMax |-> -1, reads |-> {}],
     op |-> "none"]

\* no impulse fed yet
DecIdle == [sr |-> 0, t |-> -1, energy |-> 0, peak |-> 0, op |-> "none"]

\* no block-rate run of the tank under way
\* nothing handed to the saturation stage
SatIdle == [x |-> 0, drive |-> 0, satMix |-> 0, out |-> 0, op |-> "none"]

JitIdle ==
    [pos |-> 0, blockLen |-> 0, reapply |-> FALSE, draws |-> 0, op |-> "none"]

UnitsIdle ==
    /\ dline = DelayIdle /\ tap = TapIdle /\ diff = DiffIdle /\ eng = EngIdle
    /\ dec = DecIdle
    /\ jit = JitIdle
    /\ sat = SatIdle

Init ==
    /\ TankStart
    /\ yOut \in CallerArrays
    /\ MixIdle
    /\ UnitsIdle

TankInit ==
    /\ nInit < MaxInit
    /\ \E a \in InitInputs :
          tank' = Tank_init(tank, a.sampleRate, a.maxDelaySamples, a.seed)
    /\ lastOp' = "init"
    /\ zeroRun' = -1
    /\ nInit' = nInit + 1
    /\ UNCHANGED <<lfoBank, yOut, fbIn, nProc, nCfg, nClear, mixVars, unitVars>>

TankClear ==
    /\ nClear < MaxClear
    /\ tank' = Tank_clear(tank)
    /\ lastOp' = "clear"
    /\ zeroRun' = 0
    /\ nClear' = nClear + 1
    /\ UNCHANGED <<lfoBank, yOut, fbIn, nProc, nCfg, nInit, mixVars, unitVars>>

TankSetConfig ==
    /\ nCfg < MaxCfg
    /\ \E c \in ConfigInputs : tank' = Tank_setConfig(tank, c)
    /\ lastOp' = "setConfig"
    /\ zeroRun' = -1
    /\ nCfg' = nCfg + 1
    /\ UNCHANGED <<lfoBank, yOut, fbIn, nProc, nInit, nClear, mixVars, unitVars>>

\* the four things a processing call leaves behind
Apply(r) ==
    /\ tank' = r.tank
    /\ lfoBank' = r.lfoBank
    /\ yOut' = r.yOut
    /\ fbIn' = r.fbIn

TankProcessSample ==
    /\ nProc < MaxProc
    /\ \E a \in ScalarInputs :
          \E r \in {Tank_processSample(tank, lfoBank, yOut, a[1], a[2])} :
             Apply(r)
    /\ lastOp' = "processSample"
    /\ zeroRun' = -1
    /\ nProc' = nProc + 1
    /\ UNCHANGED <<nCfg, nInit, nClear, mixVars, unitVars>>

TankProcessSampleVec ==
    /\ nProc < MaxProc
    /\ \E a \in VecInputs :
          /\ \E r \in {Tank_processSampleVec(tank, lfoBank, yOut, a[1], a[2])} :
                Apply(r)
          /\ zeroRun' = IF zeroRun >= 0 /\ a[1] = ZeroVec
                        THEN zeroRun + 1 ELSE -1
    /\ lastOp' = "processSampleVec"
    /\ nProc' = nProc + 1
    /\ UNCHANGED <<nCfg, nInit, nClear, mixVars, unitVars>>

Next ==
    \/ TankInit
    \/ TankClear
    \/ TankSetConfig
    \/ TankProcessSample
    \/ TankProcessSampleVec

Spec == Init /\ [][Next]_vars

\* ------------------------------------------------------------------------
\* Properties of the Tank
\* ------------------------------------------------------------------------
ProcessOps == {"processSample", "processSampleVec"}

\* the active line count of the stored config
ActiveLines == {i \in Lines : i < tank.cfg.lines}

\* every sample held by every delay line is zero
DelayLinesSilent ==
    \A i \in Lines : \A k \in 1 .. Len(tank.d[i].buf) : tank.d[i].buf[k] = 0

\* C1: while init() has never been called, a processSample or
\* processSampleVec call (whatever setConfig / clear calls came before)
\* leaves all 16 entries of the output array zero and changes nothing of
\* the tank (delay lines, filters, envelope) nor of the LFO bank.
C1_UninitProcessIsSilent ==
    [][(~tank.inited /\ nProc' = nProc + 1)
         => (yOut' = ZeroVec /\ tank' = tank /\ lfoBank' = lfoBank)]_vars

C1_Witness ==
    /\ ~tank.inited
    /\ lastOp = "processSampleVec"
    /\ nProc = 2 /\ nCfg = 1 /\ nClear = 1
    /\ yOut = ZeroVec

\* C2: once the tank is initialised, every later call (clear, setConfig,
\* processSample, processSampleVec, init) leaves it initialised.
C2_InitedIsAbsorbing == [][tank.inited => tank'.inited]_vars

C2_Witness ==
    /\ tank.inited
    /\ lastOp = "clear"
    /\ nProc >= 1 /\ nCfg = 1

\* C3 as stated: on an initialised tank, after clear() every zero-injection
\* processSampleVec call returns an output array whose 16 entries are all
\* zero, and the delay lines stay all-zero.
C3_AllSixteenZero ==
    (tank.inited /\ zeroRun >= 1) => (yOut = ZeroVec /\ DelayLinesSilent)

\* C3: on an initialised tank, after clear() every zero-injection
\* processSampleVec call returns zero in the entries of the active lines
\* (i < cfg.lines), and the delay lines stay all-zero.
C3_ClearedTankIsSilent ==
    (tank.inited /\ zeroRun >= 1)
       => ((\A i \in ActiveLines : yOut[i] = 0) /\ DelayLinesSilent)

C3_Witness ==
    /\ tank.inited
    /\ zeroRun = 2
    /\ nProc = 3 /\ nCfg = 1
    /\ tank.cfg.lines = 8
    /\ \A i \in ActiveLines : yOut[i] = 0
    /\ \E i \in Lines \ ActiveLines : yOut[i] # 0

\* C4: in every reachable state each per-line low, mid and high feedback
\* gain lies in [0, 0.9997].
C4_GainsBelowOne ==
    \A i \in Lines :
        /\ tank.fbGainLow[i] >= 0 /\ tank.fbGainLow[i] <= 9997
        /\ tank.fbGainMid[i] >= 0 /\ tank.fbGainMid[i] <= 9997
        /\ tank.fbGainHigh[i] >= 0 /\ tank.fbGainHigh[i] <= 9997

C4_Witness ==
    /\ tank.inited
    /\ lastOp \in ProcessOps
    /\ \E i \in ActiveLines : tank.fbGainLow[i] = 9997
    /\ \E i \in ActiveLines : tank.fbGainHigh[i] > 0 /\ tank.fbGainHigh[i] < 9997

\* scalar injections and decays the two entry points are compared on
PairedInputs == { <<1600, 20000>>, <<-900, 3000>> }

C6_OutputIsMixedVector ==
    (tank.inited /\ lastOp \in ProcessOps)
       => \A i \in ActiveLines : yOut[i] = fbIn[i]

\* C6: the output array of a processing call holds, for each active line,
\* the unmixed delay-line read (also kept in lastY); the vector fed to the
\* feedback filters is the matrix mix of those reads.
C6_OutputIsDelayRead ==
    (tank.inited /\ lastOp \in ProcessOps)
       => LET m == mix(tank.lastY, tank.cfg.lines, tank.cfg.matrix)
          IN \A i \in ActiveLines :
                yOut[i] = tank.lastY[i] /\ fbIn[i] = m[i]

C6_Witness ==
    /\ tank.inited
    /\ lastOp = "processSampleVec"
    /\ \E i \in ActiveLines : yOut[i] # fbIn[i] /\ yOut[i] = tank.lastY[i]

\* C7: the stored line count is always in 1 .. 16, and a processing call
\* on an initialised tank reads, mixes and writes back exactly the lines
\* below it: each of them gets its read into yOut / lastY and one sample
\* pushed; every other line keeps its delay line, filters, lastY and yOut
\* entry, and takes no part in the mix.
C7_ExactlyLinesProcessed ==
    [][/\ tank'.cfg.lines \in 1 .. 16
       /\ (tank.inited /\ nProc' = nProc + 1) =>
             \A i \in Lines :
                IF i < tank.cfg.lines
                THEN /\ yOut'[i] = tank'.lastY[i]
                     /\ tank'.d[i].w = (tank.d[i].w + 1) % Len(tank.d[i].buf)
                ELSE /\ yOut'[i] = yOut[i]
                     /\ fbIn'[i] = 0
                     /\ tank'.lastY[i] = tank.lastY[i]
                     /\ tank'.d[i] = tank.d[i]
                     /\ tank'.hp[i] = tank.hp[i] /\ tank'.lp[i] = tank.lp[i]
                     /\ tank'.xLo[i] = tank.xLo[i]
                     /\ tank'.xHi[i] = tank.xHi[i]]_vars

C7_Witness ==
    /\ tank.inited
    /\ lastOp = "processSample"
    /\ tank.cfg.satMix = FX /\ tank.cfg.lines = 1
    /\ tank.d[0].w = 1 /\ tank.d[1].w = 0

\* C8 as stated: every cutoff frequency stored in the config is below half
\* the tank's current sample rate.
C8_CutoffsBelowNyquist ==
    /\ 2 * tank.cfg.fbHpHz < tank.sr
    /\ 2 * tank.cfg.dampHz < tank.sr
    /\ 2 * tank.cfg.xoverLoHz < tank.sr
    /\ 2 * tank.cfg.xoverHiHz < tank.sr
    /\ 2 * tank.cfg.dynMinHz < tank.sr
    /\ 2 * tank.cfg.dynMaxHz < tank.sr

\* ------------------------------------------------------------------------
\* Specification of the mixing functions on their own (pure functions)
\* ------------------------------------------------------------------------
\* sum of squares of the first n entries
Energy(v, n) == SumTo([i \in Lines |-> v[i] * v[i]], n)

MixBases ==
    { [i \in Lines |-> 10 * (i + 1)],
      [i \in Lines |-> IF i % 3 = 0 THEN -70 ELSE 10 * (2 * i - 5)],
      [i \in Lines |-> IF i = 0 THEN 500 ELSE IF i = 11 THEN -30 ELSE 0] }

\* The arrays handed in are multiples of the line count, so that the mean of
\* householderMix and the 1/4 of hadamardMix fall on the grid: the model then
\* computes what exact arithmetic computes.
InitMix ==
    /\ TankStart
    /\ yOut = ZeroVec
    /\ mN \in 1 .. kMaxLines
    /\ \E b \in MixBases : mIn = [i \in Lines |-> mN * b[i]]
    /\ mOut = mIn
    /\ mOp = "none"
    /\ UnitsIdle

MixHouseholder ==
    /\ mOut' = householderMix(mIn, mN)
    /\ mOp' = "householderMix"
    /\ UNCHANGED <<mIn, mN, tankVars, unitVars>>

MixHadamard ==
    /\ mOut' = hadamardMix(mIn, mN)
    /\ mOp' = "hadamardMix"
    /\ UNCHANGED <<mIn, mN, tankVars, unitVars>>

MixHadamardType ==
    /\ mOut' = mix(mIn, mN, "Hadamard")
    /\ mOp' = "mix"
    /\ UNCHANGED <<mIn, mN, tankVars, unitVars>>

MixHadamardType_part006 ==
    /\ mOut' = mix_part006(mIn, mN, "Hadamard")
    /\ mOp' = "mix_part006"
    /\ UNCHANGED <<mIn, mN, tankVars, unitVars>>

NextMix ==
    \/ MixHouseholder
    \/ MixHadamard
    \/ MixHadamardType
    \/ MixHadamardType_part006

SpecMix == InitMix /\ [][NextMix]_vars

\* C9: householderMix leaves the sum of squares of the first N entries
\* unchanged, for every N in 1 .. 16.
C9_HouseholderKeepsEnergy ==
    mOp = "householderMix" => Energy(mOut, mN) = Energy(mIn, mN)

C9_Witness ==
    /\ mOp = "householderMix"
    /\ mN = 7
    /\ mOut # mIn
    /\ Energy(mIn, mN) > 0

\* C10: for N = 8 and N = 16 the butterfly passes of hadamardMix multiply
\* the sum of squares by exactly N, and the scaled result has the energy of
\* the input: exactly for N = 16 (scale 1/4), and for N = 8 as closely as
\* the scale literal and the grid allow (N * scale^2 and the energy ratio
\* within one part in a thousand of 1).
C10_HadamardKeepsEnergy ==
    (mOp = "hadamardMix" /\ mN \in {8, 16}) =>
       /\ Energy(FWHT(mIn, mN, 1), mN) = mN * Energy(mIn, mN)
       /\ Abs(mN * HadamardScale(mN) * HadamardScale(mN) - FX * FX)
             <= (FX * FX) \div 1000
       /\ mN = 16 => Energy(mOut, mN) = Energy(mIn, mN)
       /\ Abs(Energy(mOut, mN) - Energy(mIn, mN)) <= Energy(mIn, mN) \div 1000

C10_Witness ==
    /\ mOp = "hadamardMix"
    /\ mN = 8
    /\ mOut # mIn
    /\ Energy(mIn, mN) > 0

\* the first n entries of v, the rest zero
FirstN(v, n) == [i \in Lines |-> IF i < n THEN v[i] ELSE 0]

\* the entries of v at index n and above
Rest(v, n) == [i \in {k \in Lines : k >= n} |-> v[i]]

HadamardTypeOps == {"mix", "mix_part006"}

MixOf(op, v, n) ==
    IF op = "mix" THEN mix(v, n, "Hadamard") ELSE mix_part006(v, n, "Hadamard")

\* what C11 asks of one Hadamard-type mix of v over n lines
FallsBack(op, v, n, out) ==
    /\ out = householderMix(v, n)
    /\ Rest(out, n) = Rest(v, n)
    /\ FirstN(MixOf(op, FirstN(v, n), n), n) = FirstN(out, n)

\* C11: for every line count N in 1 .. 16 that is not a power of two, a mix
\* of Hadamard type gives exactly the householderMix result for the same
\* vector, leaves every entry at index N and above as it was, and its first
\* N results do not depend on those entries.  Stated of both copies of the
\* mixing code.
C11_HadamardFallsBack ==
    (mOp \in HadamardTypeOps /\ ~isPowerOfTwo(mN)) =>
        FallsBack(mOp, mIn, mN, mOut)

\* the same statement of the copy in src/dsp/tail alone
C11_TailCopyFallsBack ==
    (mOp = "mix" /\ ~isPowerOfTwo(mN)) => FallsBack(mOp, mIn, mN, mOut)

C11_TailCopyWitness ==
    /\ mOp = "mix"
    /\ mN = 6
    /\ mOut # mIn
    /\ Rest(mIn, mN) # Rest(ZeroVec, mN)

\* ------------------------------------------------------------------------
\* Specification of one DelayLine on its own
\* ------------------------------------------------------------------------
MaxPush == 12

\* capacities asked of init(): 0 and -2 give the minimum of 4
DelayCaps == {-2, 0, 6, 9}

\* delays asked of a read of dl, on the FX grid: every whole number of
\* samples from 0 to past the capacity, and negative, fractional and huge
\* ones
ReadDelays(dl) ==
    {k * FX : k \in 0 .. (Len(dl.buf) + 1)}
        \cup {-3 * FX, -1, 2500, FX + 5000, 2 * FX + 9999, 30000 * FX + 1}

\* dline.age: 0 while the buffer holds zeros only; k >= 1 when one unit
\* impulse was pushed into the all-zero buffer and k - 1 zeros after it;
\* -1 otherwise
InitDelay ==
    /\ TankStart
    /\ yOut = ZeroVec
    /\ MixIdle
    /\ \E c \in DelayCaps :
          dline = [DelayIdle EXCEPT !.dl = DelayLine_init(c), !.op = "init"]
    /\ tap = TapIdle
    /\ diff = DiffIdle
    /\ eng = EngIdle
    /\ dec = DecIdle
    /\ jit = JitIdle
    /\ sat = SatIdle

DelayPush ==
    /\ dline.pushes < MaxPush
    /\ \E x \in {0, FX} :
          /\ x = FX => dline.age >= 0
          /\ dline' = [dline EXCEPT
                 !.dl = DelayLine_push(dline.dl, x),
                 !.pushes = @ + 1,
                 !.op = "push",
                 !.age = IF x = FX THEN (IF @ = 0 THEN 1 ELSE -1)
                         ELSE IF @ >= 1 THEN @ + 1 ELSE @]
    /\ UNCHANGED <<tankVars, mixVars, tap, diff, eng, dec, jit, sat>>

DelayClear ==
    /\ dline.clears < MaxClear
    /\ dline' = [dline EXCEPT !.dl = DelayLine_clear(dline.dl), !.age = 0,
                              !.pushes = 0, !.clears = @ + 1, !.op = "clear"]
    /\ UNCHANGED <<tankVars, mixVars, tap, diff, eng, dec, jit, sat>>

\* dline.k: the delay in whole samples, -1 when it is not a whole number
DelayRead ==
    /\ \E delay \in ReadDelays(dline.dl) :
          dline' = [dline EXCEPT
                 !.out = DelayLine_readFracCubic(dline.dl, delay),
                 !.k = IF delay % FX = 0 /\ delay >= 0 THEN delay \div FX ELSE -1,
                 !.delay = delay, !.op = "read"]
    /\ UNCHANGED <<tankVars, mixVars, tap, diff, eng, dec, jit, sat>>

NextDelay ==
    \/ DelayPush
    \/ DelayClear
    \/ DelayRead

SpecDelay == InitDelay /\ [][NextDelay]_vars

\* a read at integer delay k of an impulse that is k samples old
ImpulseReadAtItsAge ==
    /\ dline.op = "read"
    /\ dline.age >= 1
    /\ dline.k = dline.age

TapUnit(i) == [k \in Lines |-> IF k = i THEN 840 ELSE 0]

TapInputs ==
    {TapUnit(i) : i \in Lines}
       \cup { [k \in Lines |-> 840 * (k + 1)],
              [k \in Lines |-> 840 * (((7 * k) % 5) - 2)] }

TapLineCounts == {-2} \cup (0 .. 17)

PatternIds ==
    {-2147483647, -9, -5, -4, -3, -2, -1, 0, 1, 2, 3, 4, 5, 6, 7, 11,
     2147483647}

InitTap ==
    /\ TankStart
    /\ yOut = ZeroVec
    /\ MixIdle
    /\ dline = DelayIdle
    /\ diff = DiffIdle
    /\ eng = EngIdle
    /\ dec = DecIdle
    /\ jit = JitIdle
    /\ sat = SatIdle
    /\ \E y \in TapInputs : \E n \in TapLineCounts : \E id \in PatternIds :
          tap = [TapIdle EXCEPT !.y = y, !.lines = n, !.patternId = id]

RenderTap ==
    /\ tap' = [tap EXCEPT
          !.out = renderTapPattern(tap.y, tap.lines, tap.patternId),
          !.op = "renderTapPattern"]
    /\ UNCHANGED <<tankVars, mixVars, dline, diff, eng, dec, jit, sat>>

RenderTap_ReverbCore ==
    /\ tap' = [tap EXCEPT
          !.out = renderTapPattern_ReverbCore(tap.y, tap.lines, tap.patternId),
          !.op = "renderTapPattern_ReverbCore"]
    /\ UNCHANGED <<tankVars, mixVars, dline, diff, eng, dec, jit, sat>>

NextTap ==
    \/ RenderTap
    \/ RenderTap_ReverbCore

SpecTap == InitTap /\ [][NextTap]_vars

RenderOf(op, y, n, id) ==
    IF op = "renderTapPattern" THEN renderTapPattern(y, n, id)
    ELSE renderTapPattern_ReverbCore(y, n, id)

Wet(r) == <<r.L, r.R>>

\* C13: for every integer patternId, renderTapPattern leaves in wetL/wetR
\* what the pattern numbered patternId mod 4 (taken into 0 .. 3) leaves for
\* the same vector and line count; so patternId and patternId + 4k agree,
\* and patternId = -1 agrees with patternId = 3.
C13_PatternIdTakenModFour ==
    tap.op # "none" =>
       /\ Wet(tap.out) = Wet(RenderOf(tap.op, tap.y, tap.lines, tap.patternId % 4))
       /\ tap.patternId \in -20 .. 20 =>
             \A k \in -2 .. 2 :
                 Wet(RenderOf(tap.op, tap.y, tap.lines, tap.patternId + 4 * k))
                    = Wet(tap.out)
       /\ tap.patternId = -1 =>
             Wet(tap.out) = Wet(RenderOf(tap.op, tap.y, tap.lines, 3))

C13_Witness ==
    /\ tap.op = "renderTapPattern"
    /\ tap.patternId = -1
    /\ tap.lines = 16
    /\ tap.out.L # 0
    /\ Wet(tap.out) # Wet(renderTapPattern(tap.y, tap.lines, 0))

\* a channel's value is its sum divided by the number of taps added into it
Normalised(value, sum, count) ==
    IF count = 0 THEN value = 0 ELSE value * count = sum

NormalisedByTapCount(r) ==
    /\ Normalised(r.L, r.sumL, r.countL)
    /\ Normalised(r.R, r.sumR, r.countR)

\* C14: for every pattern 0 .. 3 and every line count 1 .. 16, each output
\* channel of renderTapPattern equals the signed sum of that channel's taps
\* divided by the number of taps summed into that channel.  Stated of both
\* copies of the tap pattern code.
C14_NormalisedByTapCount ==
    (tap.op # "none" /\ tap.lines \in 1 .. 16) => NormalisedByTapCount(tap.out)

\* the same statement of the copy in src/unnamed/part_005 alone
C14_Part005Normalised ==
    (tap.op = "renderTapPattern" /\ tap.lines \in 1 .. 16)
        => NormalisedByTapCount(tap.out)

C14_Part005Witness ==
    /\ tap.op = "renderTapPattern"
    /\ tap.lines = 5
    /\ PatternIndex(tap.patternId) = 3
    /\ tap.out.R # 0
    /\ tap.out.countL # tap.out.countR

\* the one line that is fed in a state whose input is a single unit sample
FedLines == {i \in Lines : tap.y = TapUnit(i)}

\* C15: for every pattern 0 .. 3 and the supported line counts 8 and 16, no
\* delay line contributes to both wetL and wetR with the same sign: feeding
\* one line alone (within the line count) never gives wetL and wetR of the
\* same sign.
C15_NoLineInBothWithSameSign ==
    (/\ tap.op # "none"
     /\ tap.lines \in {8, 16}
     /\ \E i \in FedLines : i < tap.lines)
        => /\ ~(tap.out.L > 0 /\ tap.out.R > 0)
           /\ ~(tap.out.L < 0 /\ tap.out.R < 0)

\* ------------------------------------------------------------------------
\* Specification of one Diffusion module on its own
\* ------------------------------------------------------------------------
\* 0xB16B00B5 is the seed the engine passes
DiffInits == { [sampleRate |-> 500, seed |-> <<45419, 181>>] }

InputConfigs ==
    { [stages |-> 9, g |-> 9900,
       timesMsL |-> BaseTimes, timesMsR |-> BaseTimes],
      [stages |-> 0, g |-> -5000,
       timesMsL |-> [i \in InputStages |-> 30000 * i],
       timesMsR |-> [i \in InputStages |-> 20000 + 30000 * i]] }

LateConfigs ==
    { [minG |-> 1000, maxG |-> 9900,
       timesMsL |-> [i \in LateStages |-> 40000 + 30000 * i],
       timesMsR |-> [i \in LateStages |-> 50000 + 30000 * i]],
      [minG |-> 9000, maxG |-> 2000,
       timesMsL |-> [i \in LateStages |-> 0],
       timesMsR |-> [i \in LateStages |-> 990000]] }

TvGs == {9500}
DiffSamples == {<<FX, -5000>>}
Amounts == {-3000, 1, 2, 6000, 12000}

InitDiff ==
    /\ TankStart
    /\ yOut = ZeroVec
    /\ MixIdle
    /\ dline = DelayIdle
    /\ tap = TapIdle
    /\ diff = DiffIdle
    /\ eng = EngIdle
    /\ dec = DecIdle
    /\ jit = JitIdle
    /\ sat = SatIdle

DiffInit ==
    /\ diff.nInit < MaxInit
    /\ \E a \in DiffInits :
          diff' = [diff EXCEPT
              !.d = Diffusion_init(diff.d, a.sampleRate, a.seed),
              !.nInit = @ + 1, !.op = "init"]
    /\ UNCHANGED <<tankVars, mixVars, dline, tap, eng, dec, jit, sat>>

DiffClear ==
    /\ diff.nClear < MaxClear
    /\ diff' = [diff EXCEPT !.d = Diffusion_clear(diff.d),
                            !.nClear = @ + 1, !.op = "clear"]
    /\ UNCHANGED <<tankVars, mixVars, dline, tap, eng, dec, jit, sat>>

DiffSetInputConfig ==
    /\ diff.nIn < MaxCfg
    /\ \E c \in InputConfigs :
          diff' = [diff EXCEPT !.d = Diffusion_setInputConfig(diff.d, c),
                               !.nIn = @ + 1, !.op = "setInputConfig"]
    /\ UNCHANGED <<tankVars, mixVars, dline, tap, eng, dec, jit, sat>>

DiffSetLateConfig ==
    /\ diff.nLate < MaxCfg
    /\ \E c \in LateConfigs :
          diff' = [diff EXCEPT !.d = Diffusion_setLateConfig(diff.d, c),
                               !.nLate = @ + 1, !.op = "setLateConfig"]
    /\ UNCHANGED <<tankVars, mixVars, dline, tap, eng, dec, jit, sat>>

DiffSetTimeVaryingG ==
    /\ diff.nTv < MaxCfg
    /\ \E g \in TvGs :
          diff' = [diff EXCEPT !.d.tvG = g, !.nTv = @ + 1,
                               !.op = "setTimeVaryingG"]
    /\ UNCHANGED <<tankVars, mixVars, dline, tap, eng, dec, jit, sat>>

\* the call record after a processing call that handed back r
DiffAfter(r, in, amount, op) ==
    [diff EXCEPT !.d = r.d, !.out = <<r.L, r.R>>, !.in = in,
                 !.amount = amount, !.nProc = @ + 1, !.op = op]

DiffProcessInput ==
    /\ diff.nProc < MaxProc
    /\ \E x \in DiffSamples :
          diff' = DiffAfter(Diffusion_processInput(diff.d, x[1], x[2]),
                            x, 0, "processInput")
    /\ UNCHANGED <<tankVars, mixVars, dline, tap, eng, dec, jit, sat>>

DiffProcessLate ==
    /\ diff.nProc < MaxProc
    /\ \E x \in DiffSamples : \E a \in Amounts :
          diff' = DiffAfter(Diffusion_processLate(diff.d, x[1], x[2], a),
                            x, a, "processLate")
    /\ UNCHANGED <<tankVars, mixVars, dline, tap, eng, dec, jit, sat>>

NextDiff ==
    \/ DiffInit
    \/ DiffClear
    \/ DiffSetInputConfig
    \/ DiffSetLateConfig
    \/ DiffSetTimeVaryingG
    \/ DiffProcessInput
    \/ DiffProcessLate

SpecDiff == InitDiff /\ [][NextDiff]_vars

GInRange(ap) == 2500 <= ap.g /\ ap.g <= 8500

\* C16: in every state reachable after Diffusion::init, the coefficient g of
\* every input-chain and late-chain allpass stage lies in [0.25, 0.85].
C16_AllpassGInRange ==
    diff.d.inited =>
       /\ \A i \in InputStages : GInRange(diff.d.inL[i]) /\ GInRange(diff.d.inR[i])
       /\ \A i \in LateStages : GInRange(diff.d.lateL[i]) /\ GInRange(diff.d.lateR[i])

\* a sample passed through the three late stages in order, each run with g
ThroughLateStages(st, g, x) ==
    Allpass_process([st[2] EXCEPT !.g = g],
        Allpass_process([st[1] EXCEPT !.g = g],
            Allpass_process([st[0] EXCEPT !.g = g], x).y).y).y

Crossfade(a, dry, diffused) == MulFx(FX - a, dry) + MulFx(a, diffused)

\* what C17 asks of one processLate call on module D with samples x, the
\* clamped amount a, the module D2 and the samples out after the call
LateCallAsSpecified(D, x, a, D2, out) ==
    IF a > 1
    THEN out = << Crossfade(a, x[1], ThroughLateStages(D.lateL, LateG(D, a), x[1])),
                  Crossfade(a, x[2], ThroughLateStages(D.lateR, LateG(D, a), x[2])) >>
    ELSE out = x /\ D2.lateL = D.lateL /\ D2.lateR = D.lateR

\* C17: with amount01 clamped to [0, 1], a processLate call with the amount
\* above the threshold 0.0001 hands back (1 - amount) * dry + amount *
\* diffused per channel, diffused being the dry sample passed through
\* exactly the 3 late allpass stages in order; with the amount at or below
\* the threshold L and R come back unchanged and no late stage's buffer or
\* cursor is modified.
C17_LateCrossfade ==
    [][(diff'.op = "processLate" /\ diff'.nProc = diff.nProc + 1)
         => LateCallAsSpecified(diff.d, diff'.in, clampf(diff'.amount, 0, FX),
                                diff'.d, diff'.out)]_vars

C17_Witness ==
    /\ diff.op = "processLate"
    /\ diff.d.inited
    /\ diff.amount = 6000
    /\ diff.nProc = 3
    /\ diff.out[1] # diff.in[1]
    /\ diff.d.lateL[2].buf # Allpass_clear(diff.d.lateL[2]).buf

\* C18 (Diffusion part) as stated: a processInput or processLate call made
\* before init hands back zero samples whatever the input.
C18_SilenceBeforeInit ==
    (diff.op \in {"processInput", "processLate"} /\ ~diff.d.inited)
        => diff.out = <<0, 0>>

\* ------------------------------------------------------------------------
\* Specification of the engine's block handling
\* ------------------------------------------------------------------------
MaxBlockLen == 10

BlockSizes == {-4, 1, 2, 3, 4, 5}

EngineRates == {500, 2000}

\* arguments of setParams: the defaults, a change of mode to Sky or Spring,
\* and the cloud front-end switched on with a negative predelay
ParamInputs ==
    { Params0,
      [Params0 EXCEPT !.mode = "Sky"],
      [Params0 EXCEPT !.mode = "Spring"],
      [Params0 EXCEPT !.predelayMs = -5 * FX, !.cloudFrontEnable = FX,
                      !.inputDiffG = 9900] }

\* the caller's output buffer before the call: zeros, or what an earlier
\* use left in it
CallerOut(n, stale) == [i \in 0 .. (n - 1) |-> [v |-> stale, w |-> 0]]

InitEngine ==
    /\ TankStart
    /\ yOut = ZeroVec
    /\ MixIdle
    /\ dline = DelayIdle
    /\ tap = TapIdle
    /\ diff = DiffIdle
    /\ eng = EngIdle
    /\ dec = DecIdle
    /\ jit = JitIdle
    /\ sat = SatIdle

EnginePrepare ==
    /\ eng.nInit < MaxInit
    /\ \E sRate \in EngineRates : \E b \in BlockSizes :
          eng' = [eng EXCEPT !.e = Engine_prepare(eng.e, sRate, b),
                             !.nInit = @ + 1, !.op = "prepare"]
    /\ UNCHANGED <<tankVars, mixVars, dline, tap, diff, dec, jit, sat>>

EngineSetParams ==
    /\ eng.nCfg < MaxCfg
    /\ \E p \in ParamInputs :
          eng' = [eng EXCEPT !.e = Engine_setParams(eng.e, p),
                             !.nCfg = @ + 1, !.op = "setParams"]
    /\ UNCHANGED <<tankVars, mixVars, dline, tap, diff, dec, jit, sat>>

\* eng.r keeps what the call left in the caller's buffer, the chunks it
\* took and the delays it read at
EngineProcessBlock ==
    /\ eng.nProc < MaxProc
    /\ \E n \in -1 .. MaxBlockLen : \E stale \in {0, 777} :
        \E r \in {Engine_processBlock(eng.e, CallerOut(Max(n, 0), stale), n)} :
          eng' = [eng EXCEPT
              !.e = r.e,
              !.r = [out |-> r.out, chunks |-> r.chunks, wetMax |-> r.wetMax,
                     reads |-> r.reads],
              !.n = n, !.nProc = @ + 1, !.op = "processBlock"]
    /\ UNCHANGED <<tankVars, mixVars, dline, tap, diff, dec, jit, sat>>

NextEngine ==
    \/ EnginePrepare
    \/ EngineSetParams
    \/ EngineProcessBlock

SpecEngine == InitEngine /\ [][NextEngine]_vars

\* C18 (engine part) as stated: a processBlock call made before prepare
\* hands back zero samples.
C18_EngineSilenceBeforePrepare ==
    (eng.op = "processBlock" /\ ~eng.e.prepared) =>
        \A i \in DOMAIN eng.r.out : eng.r.out[i].w > 0 \/ eng.r.out[i].v = 0

\* the chunks follow one another from 0 to n, each of 1 .. B samples
ConsecutiveChunks(chunks, n, B) ==
    /\ Len(chunks) >= 1
    /\ chunks[1][1] = 0
    /\ \A k \in 1 .. Len(chunks) :
          /\ chunks[k][2] \in 1 .. B
          /\ chunks[k][1] + chunks[k][2] =
                (IF k = Len(chunks) THEN n ELSE chunks[k + 1][1])

\* C19: for any prepared block size B >= 1 and any n > 0 (n > B included),
\* processBlock comes to an end having taken the input in consecutive chunks
\* of at most B samples, has written each output index 0 .. n-1 exactly
\* once, has used no block buffer index at or beyond B, and has left every
\* block buffer at the size prepare gave it.
C19_ChunkedWithinBlock ==
    (eng.op = "processBlock" /\ eng.e.prepared /\ eng.n > 0) =>
       /\ eng.e.block >= 1
       /\ ConsecutiveChunks(eng.r.chunks, eng.n, eng.e.block)
       /\ \A i \in 0 .. (eng.n - 1) : eng.r.out[i].w = 1
       /\ eng.r.wetMax < eng.e.block
       /\ \A b \in DOMAIN eng.e.size : eng.e.size[b] = eng.e.block

C19_Witness ==
    /\ eng.op = "processBlock"
    /\ eng.e.prepared
    /\ eng.e.block = 3
    /\ eng.n = 10
    /\ Len(eng.r.chunks) = 4
    /\ eng.r.wetMax = 2

\* ------------------------------------------------------------------------
\* Specification of one impulse response of the Tank: init, the default
\* Config as init leaves it or handed to setConfig, the injection vector
\* [1, 0, 0, ...] once and zeros afterwards, decay01 = 0.92 throughout
\* ------------------------------------------------------------------------
MaxDecaySec == 9

DecayRates == {50, 100}

DecayDecay01 == 9200

ImpulseVec == [i \in Lines |-> IF i = 0 THEN FX ELSE 0]

\* the RT60 the decay mapping gives for DecayDecay01, in samples at sRate
Rt60Samples(sRate) ==
    ((decay01ToRt60Sec(DecayDecay01) \div 10000) * sRate) \div 100

InitDecay ==
    /\ TankStart
    /\ yOut = ZeroVec
    /\ MixIdle
    /\ UnitsIdle

DecayInit ==
    /\ lastOp = "none"
    /\ \E sRate \in DecayRates :
          /\ tank' = Tank_init(tank, sRate, 9, <<192, 65518>>)
          /\ dec' = [dec EXCEPT !.sr = sRate, !.op = "init"]
    /\ lastOp' = "init"
    /\ UNCHANGED <<lfoBank, yOut, fbIn, nProc, nCfg, nInit, nClear, zeroRun,
                   mixVars, dline, tap, diff, eng, jit, sat>>

DecaySetConfig ==
    /\ lastOp = "init"
    /\ tank' = Tank_setConfig(tank, ConfigDefault)
    /\ lastOp' = "setConfig"
    /\ dec' = [dec EXCEPT !.op = "setConfig"]
    /\ UNCHANGED <<lfoBank, yOut, fbIn, nProc, nCfg, nInit, nClear, zeroRun,
                   mixVars, dline, tap, diff, eng, jit, sat>>

\* the measurement after one more processSampleVec call left the vector y
Measured(d, t, y) ==
    [d EXCEPT !.t = t, !.energy = Energy(y, kMaxLines),
              !.peak = Max(d.peak, Energy(y, kMaxLines)), !.op = "process"]

DecayImpulse ==
    /\ lastOp \in {"init", "setConfig"}
    /\ \E r \in {Tank_processSampleVec(tank, lfoBank, yOut, ImpulseVec,
                                       DecayDecay01)} :
          Apply(r) /\ dec' = Measured(dec, 0, r.yOut)
    /\ lastOp' = "processSampleVec"
    /\ UNCHANGED <<nProc, nCfg, nInit, nClear, zeroRun, mixVars, dline, tap,
                   diff, eng, jit, sat>>

DecayZero ==
    /\ dec.t >= 0
    /\ dec.t < MaxDecaySec * dec.sr
    /\ \E r \in {Tank_processSampleVec(tank, lfoBank, yOut, ZeroVec,
                                       DecayDecay01)} :
          Apply(r) /\ dec' = Measured(dec, dec.t + 1, r.yOut)
    /\ lastOp' = "processSampleVec"
    /\ UNCHANGED <<nProc, nCfg, nInit, nClear, zeroRun, mixVars, dline, tap,
                   diff, eng, jit, sat>>

NextDecay ==
    \/ DecayInit
    \/ DecaySetConfig
    \/ DecayImpulse
    \/ DecayZero

SpecDecay == InitDecay /\ [][NextDecay]_vars

\* C20: with the default Tank config and decay01 = 0.92, after init and the
\* injection vector [1, 0, 0, ...] fed once and zeros afterwards, the energy
\* of the output vector is still above an audible threshold one second after
\* the impulse (here: above zero, the weakest threshold there is) and is
\* more than 60 dB below its peak from the RT60 of that decay setting on.
C20_ImpulseTail ==
    dec.t >= 0 =>
       /\ (dec.t = dec.sr) => dec.energy > 0
       /\ (dec.t >= Rt60Samples(dec.sr)) => dec.energy <= dec.peak \div 1000000

\* the half of C20 about the RT60: from the predicted RT60 on, the energy is
\* more than 60 dB below its peak, on a tank that got its Config from init
\* alone
C20_QuietByRt60 ==
    (dec.t >= Rt60Samples(dec.sr) /\ tank.cfg = Tank0.cfg /\ lastOp # "setConfig")
        => dec.energy <= dec.peak \div 1000000

\* ------------------------------------------------------------------------
\* Specification of the Tank under arbitrary calls, init called again on a
\* tank in use included (a host that changes the sample rate prepares anew)
\* ------------------------------------------------------------------------
TankReinit ==
    /\ tank.inited
    /\ nInit <= MaxInit
    /\ \E a \in InitInputs :
          tank' = Tank_init(tank, a.sampleRate, a.maxDelaySamples, a.seed)
    /\ lastOp' = "init"
    /\ zeroRun' = -1
    /\ nInit' = nInit + 1
    /\ UNCHANGED <<lfoBank, yOut, fbIn, nProc, nCfg, nClear, mixVars, unitVars>>

NextReinit ==
    \/ Next
    \/ TankReinit

SpecReinit == Init /\ [][NextReinit]_vars

\* the gains updateDecayGains computes from T's config and sample rate for
\* the decay it saw last, nothing memoised
GainsAnew(T) == Tank_updateDecayGains([T EXCEPT !.lastDecay01 = -FX], T.lastDecay01)

\* C21: after every processSample or processSampleVec call on an initialised
\* tank, each active line's cached low / mid / high gains equal what the
\* RT60 formula yields from the current config, the current sample rate and
\* the clamped decay passed to that call.
C21_GainsNeverStale ==
    (lastOp \in ProcessOps /\ tank.inited) =>
        \A i \in 0 .. (ClampLines(tank.cfg.lines) - 1) :
           /\ tank.fbGainLow[i] = GainsAnew(tank).fbGainLow[i]
           /\ tank.fbGainMid[i] = GainsAnew(tank).fbGainMid[i]
           /\ tank.fbGainHigh[i] = GainsAnew(tank).fbGainHigh[i]

\* C22: for any capacity requested at DelayLine::init (0 or negative
\* included) and any sequence of push, clear and read calls with arbitrary
\* delays, the buffer capacity is at least 4, the write cursor is in
\* [0, capacity - 1], the effective read delay is in [0, capacity - 4] and
\* all four interpolation tap indices are in [0, capacity - 1].
C22_DelayLineInBounds ==
    /\ Len(dline.dl.buf) >= 4
    /\ dline.dl.w \in 0 .. (Len(dline.dl.buf) - 1)
    /\ dline.op = "read" =>
          /\ ReadDelay(dline.dl, dline.delay) >= 0
          /\ ReadDelay(dline.dl, dline.delay) <= (Len(dline.dl.buf) - 4) * FX
          /\ \A j \in 1 .. 4 :
                ReadTaps(dline.dl, dline.delay)[j] \in 0 .. (Len(dline.dl.buf) - 1)

C22_Witness ==
    /\ dline.op = "read"
    /\ Len(dline.dl.buf) = 4
    /\ dline.dl.w = 3
    /\ dline.delay = 30000 * FX + 1
    /\ ReadTaps(dline.dl, dline.delay) = <<2, 3, 0, 1>>

\* C23: every call site that reads a delay line passes a delay of at least
\* 1 sample; for the engine: every delay handed to readFracCubic during a
\* processBlock call (the predelay read and the cloud front-end taps) is at
\* least 1 sample.
C23_NoReadAtDelayZero ==
    (eng.op = "processBlock" /\ eng.e.prepared /\ eng.n > 0) =>
        \A d \in eng.r.reads : d >= FX

\* the part of C23 about the cloud front-end taps alone
C23_CloudTapsAtLeastOneSample == \A d \in CloudTapDelays(eng.e) : d >= FX

\* the whole number of samples an allpass stage reads behind its cursor
StageDelay(ap) == clampf(ap.delaySamp, FX, (Len(ap.buf) - 1) * FX) \div FX

\* C24: in every state reachable through the engine's prepare, setParams
\* and mode-preset updates, each input-diffusion and late-diffusion stage
\* runs with an L delay different from its R delay.
C24_LeftRightDelaysDiffer ==
    eng.e.prepared =>
       /\ \A i \in InputStages :
             StageDelay(eng.e.diffusion.inL[i]) # StageDelay(eng.e.diffusion.inR[i])
       /\ \A i \in LateStages :
             StageDelay(eng.e.diffusion.lateL[i]) # StageDelay(eng.e.diffusion.lateR[i])

\* ------------------------------------------------------------------------
\* One oscillation source per processing call (Tank.cpp 338-342, 356-373)
\* ------------------------------------------------------------------------
\* a step that is a processing call on an initialised tank
ProcessingStep ==
    /\ tank.inited
    /\ nProc' = nProc + 1
    /\ lastOp' \in {"processSample", "processSampleVec"}

\* the LFO bank with every phase a quarter turn further
BankTurned(L) ==
    [L EXCEPT !.phase = [k \in DOMAIN L.phase |->
                            (L.phase[k] + (TwoPiU \div 4)) % TwoPiU]]

\* the tank with another rotation phase and other drift-noise memories
CloudTurned(T) ==
    [T EXCEPT !.cloudPhase = (T.cloudPhase + (TwoPiU \div 4)) % TwoPiU,
              !.cloudNoise = Arr([i \in Lines |->
                      [T.cloudNoise[i] EXCEPT !.y = 5000, !.target = -5000,
                                              !.samplesToNext = 1]])]

\* the members of the tank other than the rotation phase and the drift noise
SansCloud(T) == [T EXCEPT !.cloudPhase = 0, !.cloudNoise = Tank0.cloudNoise]

\* the next call's reads do not depend on the source that is switched off
SourceUnread ==
    \A a \in VecInputs :
        LET r == Tank_processSampleVec(tank, lfoBank, yOut, a[1], a[2])
        IN IF Enabled(tank.cfg.cloudEnable)
           THEN LET q == Tank_processSampleVec(tank, BankTurned(lfoBank), yOut,
                                               a[1], a[2])
                IN q.tank = r.tank /\ q.yOut = r.yOut
           ELSE LET q == Tank_processSampleVec(CloudTurned(tank), lfoBank, yOut,
                                               a[1], a[2])
                IN /\ SansCloud(q.tank) = SansCloud(r.tank)
                   /\ q.yOut = r.yOut /\ q.lfoBank = r.lfoBank

\* C25: in every processing call on an initialised tank the lines take their
\* oscillation from one source only: with cloud mode enabled the shared LFO
\* bank is neither read nor stepped, with cloud mode disabled the rotation
\* phase and the drift noise are neither read nor stepped
C25_OneOscillationSource ==
    [][ProcessingStep =>
          /\ SourceUnread
          /\ IF Enabled(tank.cfg.cloudEnable)
             THEN lfoBank' = lfoBank
             ELSE /\ tank'.cloudPhase = tank.cloudPhase
                  /\ tank'.cloudNoise = tank.cloudNoise]_vars

\* both cases happened: a call in cloud mode has turned the rotation phase and
\* a call outside cloud mode has stepped the bank
C25_Witness ==
    /\ tank.inited
    /\ lastOp \in {"processSample", "processSampleVec"}
    /\ tank.cloudPhase > 0
    /\ lfoBank # MultiLFO_init(16, 48000)

\* ------------------------------------------------------------------------
\* clear() against a fresh tank (Tank.cpp 91-110, 28-89; SmoothNoise::clear)
\* ------------------------------------------------------------------------
\* tanks freshly initialised, given a configuration or left with the default
\* one, and then cleared
FreshTanks ==
    UNION { {Tank_clear(Tank_init(Tank0, a.sampleRate, a.maxDelaySamples,
                                  a.seed))}
            \cup {Tank_clear(Tank_setConfig(
                        Tank_init(Tank0, a.sampleRate, a.maxDelaySamples,
                                  a.seed), c)) : c \in ConfigInputs}
            : a \in InitInputs }

\* the fresh tanks of the seed, sample rate, capacity and configuration of T
FreshLike(T) ==
    {R \in FreshTanks : /\ R.seed = T.seed /\ R.sr = T.sr /\ R.cfg = T.cfg
                        /\ Len(R.d[0].buf) = Len(T.d[0].buf)}

\* what the next processing call of T shows for each input: the reads, the
\* bank, and for each line the jitter and drift targets and values
Behaviour(T) ==
    [a \in VecInputs |->
        LET r == Tank_processSampleVec(T, lfoBank, yOut, a[1], a[2])
        IN [yOut |-> r.yOut, lfoBank |-> r.lfoBank, fbIn |-> r.fbIn,
            jitter |-> [i \in Lines |-> <<r.tank.jitter[i].target,
                                          r.tank.jitter[i].y>>],
            cloudNoise |-> [i \in Lines |-> <<r.tank.cloudNoise[i].target,
                                              r.tank.cloudNoise[i].y>>]]]

\* C26: a tank that processed and was then cleared behaves in the next
\* processing call, for every input and the same LFO bank, like a tank freshly
\* initialised with the same seed, sample rate and configuration and then
\* cleared, the jitter and drift noise sequences of the lines included
C26_ClearLikeFresh ==
    (tank.inited /\ lastOp = "clear" /\ nProc > 0)
        => \A R \in FreshLike(tank) : Behaviour(tank) = Behaviour(R)

\* ------------------------------------------------------------------------
\* Interpolation taps and the write cursor (DelayLine::readFracCubic)
\* ------------------------------------------------------------------------
\* twice the weights that h00 y1 + h10 m1 + h01 y2 + h11 m2, with
\* m1 = 0.5 (y2 - y0) and m2 = 0.5 (y3 - y1), gives to y0, y1, y2, y3
TapWeights2(dl, delaySamples) ==
    LET rp == ReadPos(dl, delaySamples)
        f  == rp - (rp \div FX) * FX
        f2 == MulFx(f, f)
        f3 == MulFx(f2, f)
        h00 == 2 * f3 - 3 * f2 + FX
        h10 == f3 - 2 * f2 + f
        h01 == -2 * f3 + 3 * f2
        h11 == f3 - f2
    IN <<-h10, 2 * h00 - h11, 2 * h01 + h10, h11>>

\* C27: for every read with a delay of at least 1 sample and at most
\* capacity - 4, integer or fractional, none of the four interpolation taps
\* that carries a non-zero weight is the slot at the write cursor
C27_NoWeightAtWriteCursor ==
    (/\ dline.op = "read"
     /\ dline.delay >= FX
     /\ dline.delay <= (Len(dline.dl.buf) - 4) * FX)
        => \A j \in 1 .. 4 :
              TapWeights2(dline.dl, dline.delay)[j] # 0
                  => ReadTaps(dline.dl, dline.delay)[j] # dline.dl.w

\* the part of C27 that holds: reads at whole delays of 1 sample or more
C27_WholeDelays ==
    (/\ dline.op = "read"
     /\ dline.k >= 1
     /\ dline.delay <= (Len(dline.dl.buf) - 4) * FX)
        => \A j \in 1 .. 4 :
              TapWeights2(dline.dl, dline.delay)[j] # 0
                  => ReadTaps(dline.dl, dline.delay)[j] # dline.dl.w

\* ------------------------------------------------------------------------
\* The jitter sources under a host that processes block after block
\* (Tank.cpp 153-165; SmoothNoise::setRateHz and process)
\* ------------------------------------------------------------------------
MaxDraws == 3
JitterBlocks == {1, 2, 3}

\* jitter enabled, targets asked for 20 and 10 times a second
JitterConfigs ==
    { [ConfigDefault EXCEPT !.jitterRateHz = 20000],
      [ConfigDefault EXCEPT !.jitterRateHz = 10000] }

\* line i drew a new random target in the processing call just made: its
\* countdown was reloaded with the period (SmoothNoise::process)
JitterDrew(i) ==
    /\ lastOp = "processSampleVec"
    /\ tank.jitter[i].samplesToNext
          = SmoothNoise_period(tank.jitter[i], tank.jitter[i].rateHz)

InitJitter ==
    /\ TankStart
    /\ yOut = ZeroVec
    /\ MixIdle
    /\ UnitsIdle

\* the host prepares the tank: init, then setConfig
JitterPrepare ==
    /\ jit.op = "none"
    /\ \E c \in JitterConfigs, b \in JitterBlocks, again \in BOOLEAN :
          /\ tank' = Tank_setConfig(Tank_init(tank, 50, 9, <<192, 65518>>), c)
          /\ jit' = [jit EXCEPT !.blockLen = b, !.reapply = again,
                                !.op = "prepare"]
    /\ lastOp' = "setConfig"
    /\ UNCHANGED <<lfoBank, yOut, fbIn, nProc, nCfg, nInit, nClear, zeroRun,
                   mixVars, dline, tap, diff, eng, dec, sat>>

\* one sample of the current block
JitterProcess ==
    /\ jit.op # "none"
    /\ jit.pos < jit.blockLen
    /\ jit.draws < MaxDraws
    /\ \E r \in {Tank_processSampleVec(tank, lfoBank, yOut, ZeroVec, 5000)} :
          /\ Apply(r)
          /\ jit' = [jit EXCEPT
                !.pos = @ + 1, !.op = "process",
                !.draws = IF r.tank.jitter[0].samplesToNext
                               = SmoothNoise_period(r.tank.jitter[0],
                                                    r.tank.jitter[0].rateHz)
                          THEN @ + 1 ELSE @]
    /\ lastOp' = "processSampleVec"
    /\ UNCHANGED <<nProc, nCfg, nInit, nClear, zeroRun, mixVars, dline, tap,
                   diff, eng, dec, sat>>

\* between two blocks the host applies the configuration again, unchanged
JitterReapply ==
    /\ jit.op # "none"
    /\ jit.pos = jit.blockLen
    /\ jit.reapply
    /\ tank' = Tank_setConfig(tank, tank.cfg)
    /\ jit' = [jit EXCEPT !.pos = 0, !.op = "setConfig"]
    /\ lastOp' = "setConfig"
    /\ UNCHANGED <<lfoBank, yOut, fbIn, nProc, nCfg, nInit, nClear, zeroRun,
                   mixVars, dline, tap, diff, eng, dec, sat>>

\* between two blocks the host leaves the configuration alone
JitterNextBlock ==
    /\ jit.op # "none"
    /\ jit.pos = jit.blockLen
    /\ ~jit.reapply
    /\ jit' = [jit EXCEPT !.pos = 0, !.op = "next"]
    /\ UNCHANGED <<tankVars, mixVars, dline, tap, diff, eng, dec, sat>>

NextJitter ==
    \/ JitterPrepare
    \/ JitterProcess
    \/ JitterReapply
    \/ JitterNextBlock

\* the records of a host
HostRecords ==
    [pos : 0 .. 3, blockLen : 0 .. 3, reapply : BOOLEAN, draws : 0 .. MaxDraws,
     op : {"prepare", "process", "setConfig", "next"}]

\* the host makes its next call: what NextJitter does to the host's record
\* (every call changes it), under the guards of the four actions
HostCall ==
    /\ jit' \in HostRecords
    /\ \/ jit.op = "none" /\ jit'.op = "prepare"
       \/ /\ jit.op # "none" /\ jit.pos < jit.blockLen /\ jit.draws < MaxDraws
          /\ jit'.op = "process"
       \/ /\ jit.op # "none" /\ jit.pos = jit.blockLen
          /\ jit'.op = IF jit.reapply THEN "setConfig" ELSE "next"

\* processing goes on for ever: the host always makes its next call
SpecJitter == InitJitter /\ [][NextJitter]_vars /\ WF_jit(HostCall)

\* C28: with jitter enabled and processing going on for ever, the jitter
\* source of every active line draws a new random target again and again
\* (up to the bound on draws), also when setConfig is applied again with the
\* same configuration between the blocks
C28_JitterKeepsDrawing ==
    \A i \in Lines : []<>(JitterDrew(i) \/ jit.draws >= MaxDraws)

\* the part of C28 that holds: under a host that leaves the configuration
\* alone between the blocks every line draws again and again
C28_WithoutReapply ==
    \A i \in Lines :
        []<>(jit.reapply \/ JitterDrew(i) \/ jit.draws >= MaxDraws)

\* ------------------------------------------------------------------------
\* The saturation blend of the feedback (Tank.cpp 428-430; dsp::softSat)
\* ------------------------------------------------------------------------
SatSamples ==
    {-30000, -10000, -5000, -2500, -100, 0, 100, 2500, 5000, 7500, 10000,
     15000, 30000}
SatDrives == {0, 12000, 50000, 100000}
SatMixes == {0, 2500, 5000, 10000}

InitSat ==
    /\ TankStart
    /\ yOut = ZeroVec
    /\ MixIdle
    /\ dline = DelayIdle /\ tap = TapIdle /\ diff = DiffIdle /\ eng = EngIdle
    /\ dec = DecIdle
    /\ jit = JitIdle
    /\ \E x \in SatSamples, dr \in SatDrives, m \in SatMixes :
          sat = [SatIdle EXCEPT !.x = x, !.drive = dr, !.satMix = m]

SatApply ==
    /\ sat.op = "none"
    /\ sat' = [sat EXCEPT !.out = SatBlend(sat.x, sat.drive, sat.satMix),
                          !.op = "blend"]
    /\ UNCHANGED <<tankVars, mixVars, dline, tap, diff, eng, dec, jit>>

NextSat == SatApply

SpecSat == InitSat /\ [][NextSat]_vars

\* C29: for every feedback sample x, drive in [0, 10] and satMix in [0, 1] the
\* blended value (1 - satMix) x + satMix softSat(x, drive) is no larger in
\* magnitude than x
C29_BlendWithinInput ==
    sat.op = "blend" => Abs(sat.out) <= Abs(sat.x)

\* the part of C29 that holds: samples of magnitude 1 or more (up to one step
\* of the grid) and every sample when satMix is 0
C29_BlendWithinLargeInput ==
    (sat.op = "blend" /\ (Abs(sat.x) >= FX \/ sat.satMix = 0))
        => Abs(sat.out) <= Abs(sat.x) + 1

\* ------------------------------------------------------------------------
\* What setConfig leaves alone (Tank.cpp 112-172)
\* ------------------------------------------------------------------------
\* the runtime state of a noise source: everything but its rate, countdown
\* and smoothing coefficient
NoiseRun(n) == [sr |-> n.sr, rng |-> n.rng, y |-> n.y, target |-> n.target]

\* the members of the tank that are not derived from the configuration
RuntimeState(T) ==
    [sr |-> T.sr, seed |-> T.seed, inited |-> T.inited,
     d |-> T.d,
     hp |-> [i \in Lines |-> T.hp[i].z], lp |-> [i \in Lines |-> T.lp[i].z],
     xLo |-> [i \in Lines |-> T.xLo[i].z], xHi |-> [i \in Lines |-> T.xHi[i].z],
     env |-> T.envFollower.env, envSr |-> T.envFollower.sr, env01 |-> T.env01,
     lastY |-> T.lastY,
     cloudPhase |-> T.cloudPhase, cloudPhaseOffset |-> T.cloudPhaseOffset,
     jitter |-> [i \in Lines |-> NoiseRun(T.jitter[i])],
     cloudNoise |-> [i \in Lines |-> NoiseRun(T.cloudNoise[i])],
     fbGainLow |-> T.fbGainLow, fbGainMid |-> T.fbGainMid,
     fbGainHigh |-> T.fbGainHigh]

\* C30: setConfig on an initialised tank changes only values derived from the
\* configuration (the stored config, filter coefficients, noise rates and
\* countdowns, the damping target, the validity of the cached gains): it
\* leaves every delay line's contents and write cursor, every filter memory
\* and the envelope value as they were, and the caller's bank and arrays too
C30_SetConfigFrame ==
    [][(tank.inited /\ lastOp' = "setConfig" /\ nCfg' = nCfg + 1)
          => /\ RuntimeState(tank') = RuntimeState(tank)
             /\ UNCHANGED <<lfoBank, yOut, fbIn>>]_vars

\* a setConfig on a tank that holds sound: samples in a delay line, a filter
\* memory and an envelope that are not zero
C30_Witness ==
    /\ tank.inited
    /\ lastOp = "setConfig"
    /\ nProc > 0
    /\ \E i \in Lines : \E k \in DOMAIN tank.d[i].buf : tank.d[i].buf[k] # 0
    /\ \E i \in Lines : tank.hp[i].z # 0
    /\ tank.envFollower.env > 0

====
